---- MODULE Spec2Model ----
(***************************************************************************)
(* A model of mcp-cache: the TTL store (src/src/cache.ts), the subprocess  *)
(* transport (src/unnamed/part_002) and the size gate of the proxy         *)
(* (src/src/proxy.ts).                                                     *)
(*                                                                         *)
(* Every asynchronous method is cut at its awaits: one action is the       *)
(* completion of the pending filesystem operation followed by the          *)
(* synchronous code that runs up to the next await.                        *)
(***************************************************************************)
EXTENDS Integers, Sequences, FiniteSets, TLC

VARIABLES
  now,              \* the clock, in ms
  fs,               \* the cache directory: file name |-> content
  tasks,            \* the CacheManager calls in progress
  returned,         \* the CacheManager call that has just returned
  issued,           \* the ids generateId() has drawn
  seen,             \* the ids a client has been given
  nextId,           \* TargetServerTransport.nextId
  messageHandlers,  \* the keys of TargetServerTransport.messageHandlers
  promises,         \* the promise of each sendRequest(), by request id
  timers,           \* the setTimeout() of each sendRequest(), by request id:
                    \* when it is due, and whether it has fired
  process,          \* TargetServerTransport.process: "none", "running",
                    \* or "failed" (the object of a spawn that failed)
  outbox,           \* what has been written to the subprocess
  event,            \* the message or the timer that has just been handled
  calls,            \* the forwardToolCall() calls in progress
  replied,          \* the forwardToolCall() that has just returned
  clientInfo,       \* MCPProxy.clientInfo
  stores,           \* the CacheManager instances the MCPProxy has made:
                    \* how far initialize() has come, cleanupInterval,
                    \* the intervals set, whether stop() has been called,
                    \* and the cleanup() runs its intervals have started
  maxTokens,        \* ConfigManager.config.maxTokens
  phase,            \* how far main() has come: "constructed", "start",
                    \* "initialize", "serving", "exited", or "hung"
  targetTools,      \* MCPProxy.targetTools
  started,          \* the promise of TargetServerTransport.start(), once
                    \* made, when its 100 ms timer is due, whether it
                    \* has fired, and whether an 'error' event of the
                    \* subprocess is to come
  connected,        \* whether Server.connect() has been called
  queryEngine,      \* the call of a QueryEngine method that is looked at:
                    \* its arguments and what it has returned so far
  buffer,           \* TargetServerTransport.buffer
  wire,             \* the bytes the subprocess has written to its stdout:
                    \* those read so far and those still in the pipe
  dispatched,       \* the messages handleData() has passed to handleMessage()
  notificationHandlers
                    \* TargetServerTransport.notificationHandlers: each
                    \* listener with the notifications it has been given

storeVars == <<now, fs, tasks, returned, issued, seen>>
transportVars ==
  <<nextId, messageHandlers, promises, timers, process, outbox, event>>
proxyVars == <<calls, replied, clientInfo, stores, maxTokens>>
serverVars ==
  <<phase, targetTools, started, connected, queryEngine, buffer, wire,
    dispatched, notificationHandlers>>
ioVars == <<queryEngine, buffer, wire, dispatched>>

vars ==
  <<now, fs, tasks, returned, issued, seen, nextId, messageHandlers, promises,
    timers, process, outbox, event, calls, replied, clientInfo, stores, maxTokens,
    phase, targetTools, started, connected, queryEngine, buffer, wire,
    dispatched, notificationHandlers>>

(***************************************************************************)
(* Bounds of the model.                                                    *)
(***************************************************************************)
MaxTasks == 2
MaxIds == 1
MaxEpoch == 1
MaxReq == 2

(***************************************************************************)
(* Text.  A string is kept run-length encoded: a sequence of runs          *)
(* [c, k] (k >= 1 copies of the character c), adjacent runs holding        *)
(* different characters, so that two texts are equal exactly when their    *)
(* encodings are.                                                          *)
(***************************************************************************)
Run(c, k) == [c |-> c, k |-> k]

Rep(c, k) == IF k = 0 THEN <<>> ELSE <<Run(c, k)>>

Cat(a, b) ==
  IF a = <<>> THEN b
  ELSE IF b = <<>> THEN a
  ELSE IF a[Len(a)].c = b[1].c
       THEN SubSeq(a, 1, Len(a) - 1)
              \o <<Run(b[1].c, a[Len(a)].k + b[1].k)>> \o Tail(b)
       ELSE a \o b

RECURSIVE StrLength(_)
StrLength(s) == IF s = <<>> THEN 0 ELSE s[1].k + StrLength(Tail(s))

Utf8Width(c) == IF c = "é" THEN 2 ELSE 1

RECURSIVE ByteLength(_)
ByteLength(s) ==
  IF s = <<>> THEN 0 ELSE s[1].k * Utf8Width(s[1].c) + ByteLength(Tail(s))

CeilDiv(a, b) == (a + b - 1) \div b

Min(a, b) == IF a < b THEN a ELSE b

(***************************************************************************)
(* JSON values: a closed tagged variant (null, string, array).             *)
(***************************************************************************)
JNull == [t |-> "null", c |-> "", n |-> 0, items |-> <<>>]
JStr(c, n) == [t |-> "str", c |-> c, n |-> n, items |-> <<>>]
JArr(items) == [t |-> "arr", c |-> "", n |-> 0, items |-> items]

NullText == <<Run("n", 1), Run("u", 1), Run("l", 2)>>

RECURSIVE Stringify(_)
RECURSIVE StringifyItems(_)
Stringify(v) ==
  CASE v.t = "null" -> NullText
    [] v.t = "str" -> Cat(Cat(Rep("\"", 1), Rep(v.c, v.n)), Rep("\"", 1))
    [] v.t = "arr" -> Cat(Cat(Rep("[", 1), StringifyItems(v.items)), Rep("]", 1))
StringifyItems(items) ==
  IF items = <<>> THEN <<>>
  ELSE IF Len(items) = 1 THEN Stringify(items[1])
  ELSE Cat(Cat(Stringify(items[1]), Rep(",", 1)), StringifyItems(Tail(items)))

\* What a client saves, and what the target server answers.
Payloads == { JStr("é", 2), JStr("a", 99999) }
Results ==
  { JStr("a", 99998), JStr("a", 99999), JStr("a", 899998), JStr("a", 899999) }

JsonValues == Payloads \cup Results \cup {JNull}

Parses(text) == \E v \in JsonValues : Stringify(v) = text
Parse(text) == CHOOSE v \in JsonValues : Stringify(v) = text

(***************************************************************************)
(* Dates.                                                                  *)
(***************************************************************************)
toISOString(ms) == [s |-> ms \div 1000, ms |-> ms % 1000]
DateParse(iso) == iso.s * 1000 + iso.ms

TTL == 3600
TtlMs == TTL * 1000

TimePoints == {0} \cup { e * TtlMs + j : e \in 1..MaxEpoch, j \in 0..1 }

(***************************************************************************)
(* Identifiers and paths.  A file name is the sequence of its              *)
(* dot-separated components.                                               *)
(***************************************************************************)
IdNames == <<"resp_01", "resp_02", "resp_03", "resp_04">>
IdSeq == [i \in 1..MaxIds |-> <<IdNames[i]>>]
GenIds == { IdSeq[i] : i \in 1..MaxIds }

getFilePath(id) == id \o <<"json">>
getMetaFilePath(id) == id \o <<"meta", "json">>

EndsWithMetaJson(p) ==
  Len(p) >= 2 /\ p[Len(p) - 1] = "meta" /\ p[Len(p)] = "json"

WriteFile(f, p, body) ==
  [q \in DOMAIN f \cup {p} |-> IF q = p THEN body ELSE f[q]]
Unlink(f, p) == [q \in DOMAIN f \ {p} |-> f[q]]

Tools == {"dom"}
Clients == {"claude-ai"}

StringifyMeta(m) ==
  << <<"id", m.id>>, <<"tool", m.tool>>, <<"sizeBytes", m.sizeBytes>>,
     <<"createdAt", m.createdAt>>, <<"expiresAt", m.expiresAt>>,
     <<"client", m.client>>, <<"chunks", m.chunks>>,
     <<"indexed", m.indexed>> >>

Field(doc, key) == doc[CHOOSE i \in DOMAIN doc : doc[i][1] = key][2]

ParseMeta(doc) ==
  [id |-> Field(doc, "id"), tool |-> Field(doc, "tool"),
   sizeBytes |-> Field(doc, "sizeBytes"), createdAt |-> Field(doc, "createdAt"),
   expiresAt |-> Field(doc, "expiresAt"), client |-> Field(doc, "client"),
   chunks |-> Field(doc, "chunks"), indexed |-> Field(doc, "indexed")]

ReadJson(f, p) == IF EndsWithMetaJson(p) THEN ParseMeta(f[p]) ELSE Parse(f[p])

(***************************************************************************)
(* The store: CacheManager.  `tasks` holds the store calls in progress,    *)
(* one per slot; `returned` holds the call that has just returned (its     *)
(* record, with its result), and is empty after any later step.            *)
(* `pre` (the records of the call's id present when the call was made),    *)
(* `alone` (no other call has been in progress since this call was made)   *)
(* and `removed` (the deletions of this cleanup() that succeeded) record   *)
(* history; no step of the store reads them.  `issued` holds the ids       *)
(* generateId() has drawn, `seen` the ids a caller has been given (by      *)
(* save() or by list()).                                                   *)
(***************************************************************************)
Slots == 1..MaxTasks

NoId == <<>>

CLEANUP_INTERVAL == 300000

\* new CacheManager(cacheDir, ttl): the constructor has called initialize(),
\* which waits for mkdir; no interval is set yet.  `intervals` holds every
\* interval the instance has set, cleanupInterval the index of the one the
\* field refers to; `stopped` and `runs` record what has happened.
CacheManager ==
  [pc |-> "mkdir", cleanupInterval |-> <<>>, intervals |-> <<>>,
   stopped |-> FALSE, runs |-> 0]

\* initialize() after its mkdir: startAutoCleanup() at the instant `at`.
startAutoCleanup(c, at) ==
  [c EXCEPT !.pc = "ready",
            !.cleanupInterval = <<Len(c.intervals) + 1>>,
            !.intervals = Append(@, [due |-> at + CLEANUP_INTERVAL,
                                     cleared |-> FALSE])]

\* stop(): clearInterval of cleanupInterval, if there is one.
stop(c) ==
  [c EXCEPT !.stopped = TRUE,
            !.intervals = IF c.cleanupInterval = <<>> THEN @
                          ELSE [@ EXCEPT ![c.cleanupInterval[1]].cleared = TRUE]]

IdleTask ==
  [op |-> "idle", pc |-> "idle", id |-> NoId, data |-> JNull, now |-> 0,
   meta |-> <<>>, names |-> <<>>, todo |-> {}, reads |-> <<>>, items |-> <<>>,
   idx |-> 0, cleaned |-> 0,
   removed |-> 0, retB |-> FALSE, retN |-> 0, retV |-> JNull, pre |-> {},
   alone |-> TRUE, caller |-> 0]

Present(f, id) ==
  (IF getFilePath(id) \in DOMAIN f THEN {"data"} ELSE {})
    \cup (IF getMetaFilePath(id) \in DOMAIN f THEN {"meta"} ELSE {})

Started(op, pc, id) ==
  [IdleTask EXCEPT !.op = op, !.pc = pc, !.id = id, !.pre = Present(fs, id),
                   !.alone = \A u \in Slots : tasks[u].pc = "idle"]

\* A call takes the first slot that holds no call in progress.
Free(s) ==
  /\ tasks[s].pc = "idle"
  /\ \A u \in Slots : u < s => tasks[u].pc # "idle"

Disturb(ts, s) ==
  [u \in Slots |->
     IF u # s /\ ts[u].op # "idle" THEN [ts[u] EXCEPT !.alone = FALSE]
     ELSE ts[u]]

Expired(m, at) == DateParse(m.expiresAt) < at

\* Metadata whose sizeBytes counts UTF-16 code units instead of bytes.
SaveMetadataCodeUnits(id, tool, data, client, at) ==
  [id |-> id, tool |-> tool,
   sizeBytes |-> StrLength(Stringify(data)),
   createdAt |-> toISOString(at),
   expiresAt |-> toISOString(at + TTL * 1000),
   client |-> client,
   chunks |-> CeilDiv(StrLength(Stringify(data)), 10000),
   indexed |-> FALSE]

\* save(): the metadata it builds before the first writeFile.
SaveMetadata(id, tool, data, client, at) ==
  [id |-> id, tool |-> tool,
   sizeBytes |-> ByteLength(Stringify(data)),
   createdAt |-> toISOString(at),
   expiresAt |-> toISOString(at + TTL * 1000),
   client |-> client,
   chunks |-> CeilDiv(StrLength(Stringify(data)), 10000),
   indexed |-> FALSE]

\* save() up to its first await; caller is 0 for a client of the store and
\* the slot of the forwardToolCall() that awaits it otherwise.
SaveTask(id, tool, data, client, caller) ==
  [Started("save", "write_data", id) EXCEPT
     !.data = data, !.now = now,
     !.meta = <<SaveMetadata(id, tool, data, client, now)>>,
     !.caller = caller]

(***************************************************************************)
(* Promises.  A promise settles once: resolve and reject on a settled      *)
(* promise do nothing.  A message text is the sequence of its words.       *)
(***************************************************************************)
Pending == [state |-> "pending", value |-> <<>>, message |-> <<>>]
Resolved(v) == [state |-> "resolved", value |-> v, message |-> <<>>]
Rejected(msg) == [state |-> "rejected", value |-> <<>>, message |-> msg]

Settle(p, outcome) == IF p.state = "pending" THEN outcome ELSE p

Includes(msg, sub) ==
  \E i \in 1..(Len(msg) - Len(sub) + 1) : SubSeq(msg, i, i + Len(sub) - 1) = sub

(***************************************************************************)
(* The query engine: QueryEngine (src/src/query.ts).  A method either      *)
(* returns a value, throws an error, or does not end.                      *)
(***************************************************************************)
Returned(v) == [ends |-> TRUE, ok |-> TRUE, value |-> <<v>>, message |-> <<>>]
Thrown(m) == [ends |-> TRUE, ok |-> FALSE, value |-> <<>>, message |-> <<m>>]
Endless == [ends |-> FALSE, ok |-> FALSE, value |-> <<>>, message |-> <<>>]

\* The values the engine builds: numbers, booleans, strings of any text,
\* objects (a sequence of <<key, value>>).
JNum(n) == [t |-> "num", c |-> "", n |-> n, items |-> <<>>]
JBool(b) == [t |-> "bool", c |-> "", n |-> IF b THEN 1 ELSE 0, items |-> <<>>]
JText(s) == [t |-> "text", c |-> "", n |-> 0, items |-> s]
JObj(fields) == [t |-> "obj", c |-> "", n |-> 0, items |-> fields]

RECURSIVE Take(_, _)
Take(s, n) ==
  IF n <= 0 \/ s = <<>> THEN <<>>
  ELSE IF s[1].k <= n THEN Cat(<<s[1]>>, Take(Tail(s), n - s[1].k))
       ELSE <<Run(s[1].c, n)>>

RECURSIVE Drop(_, _)
Drop(s, n) ==
  IF n <= 0 \/ s = <<>> THEN s
  ELSE IF s[1].k <= n THEN Drop(Tail(s), n - s[1].k)
       ELSE <<Run(s[1].c, s[1].k - n)>> \o Tail(s)

\* s.slice(start, end) for 0 <= start <= end.
Slice(s, start, end) == Drop(Take(s, end), start)

\* The text of a short string given by its characters.
RECURSIVE FromChars(_)
FromChars(cs) ==
  IF cs = <<>> THEN <<>> ELSE Cat(Rep(Head(cs), 1), FromChars(Tail(cs)))

Indent(depth) == Rep(" ", 2 * depth)

\* JSON.stringify(v, null, 2) of a payload.
RECURSIVE StringifyIndented(_, _)
RECURSIVE StringifyIndentedItems(_, _)
StringifyIndented(v, depth) ==
  IF v.t = "arr" /\ v.items # <<>>
  THEN Cat(Cat(Cat(Rep("[", 1), Rep("\n", 1)),
               StringifyIndentedItems(v.items, depth + 1)),
           Cat(Cat(Rep("\n", 1), Indent(depth)), Rep("]", 1)))
  ELSE Stringify(v)
StringifyIndentedItems(items, depth) ==
  IF Len(items) = 1 THEN Cat(Indent(depth), StringifyIndented(items[1], depth))
  ELSE Cat(Cat(Cat(Indent(depth), StringifyIndented(items[1], depth)),
               Cat(Rep(",", 1), Rep("\n", 1))),
           StringifyIndentedItems(Tail(items), depth))

\* The lines of a text: text.split('\n').
RECURSIVE SplitLines(_, _, _)
SplitLines(s, current, done) ==
  IF s = <<>> THEN Append(done, current)
  ELSE IF s[1].c = "\n"
       THEN SplitLines(Tail(s), <<>>,
                       Append(done, current)
                         \o [i \in 1..(s[1].k - 1) |-> <<>>])
       ELSE SplitLines(Tail(s), Cat(current, <<s[1]>>), done)

Split(s) == SplitLines(s, <<>>, <<>>)

\* toLowerCase(), on the characters of the model.
LowerOf(c) == IF c = "A" THEN "a" ELSE c

RECURSIVE ToLowerCase(_)
ToLowerCase(s) ==
  IF s = <<>> THEN <<>>
  ELSE Cat(<<Run(LowerOf(s[1].c), s[1].k)>>, ToLowerCase(Tail(s)))

IsSpace(c) == c \in {" ", "\n"}

RECURSIVE TrimStart(_)
TrimStart(s) ==
  IF s # <<>> /\ IsSpace(s[1].c) THEN TrimStart(Tail(s)) ELSE s

RECURSIVE TrimEnd(_)
TrimEnd(s) ==
  IF s # <<>> /\ IsSpace(s[Len(s)].c) THEN TrimEnd(SubSeq(s, 1, Len(s) - 1))
  ELSE s

Trim(s) == TrimEnd(TrimStart(s))

\* line.includes(q): q lies in the line when its first and last runs fit
\* into runs of the line and the runs between them are runs of the line.
TextIncludes(line, q) ==
  \/ q = <<>>
  \/ /\ Len(q) = 1
     /\ \E i \in DOMAIN line : line[i].c = q[1].c /\ line[i].k >= q[1].k
  \/ /\ Len(q) >= 2
     /\ \E i \in 1..(Len(line) - Len(q) + 1) :
          /\ line[i].c = q[1].c /\ line[i].k >= q[1].k
          /\ \A j \in 2..(Len(q) - 1) : line[i + j - 1] = q[j]
          /\ line[i + Len(q) - 1].c = q[Len(q)].c
          /\ line[i + Len(q) - 1].k >= q[Len(q)].k

\* The length of JSON.stringify(v, null, 2), for v at the given depth.
KeyLength ==
  [results |-> 7, total |-> 5, limit |-> 5, offset |-> 6, hasMore |-> 7,
   line |-> 4, content |-> 7]

RECURSIVE Digits(_)
Digits(n) == IF n < 10 THEN 1 ELSE 1 + Digits(n \div 10)

RECURSIVE EscapedLength(_)
EscapedLength(s) ==
  IF s = <<>> THEN 0
  ELSE s[1].k * (IF s[1].c \in {"\"", "\\", "\n"} THEN 2 ELSE 1)
         + EscapedLength(Tail(s))

RECURSIVE IndentedLength(_, _)
RECURSIVE IndentedItemsLength(_, _, _)
IndentedLength(v, depth) ==
  CASE v.t = "null" -> 4
    [] v.t = "bool" -> IF v.n = 1 THEN 4 ELSE 5
    [] v.t = "num" -> Digits(v.n)
    [] v.t = "str" -> 2 + EscapedLength(Rep(v.c, v.n))
    [] v.t = "text" -> 2 + EscapedLength(v.items)
    [] v.t \in {"arr", "obj"} ->
         IF v.items = <<>> THEN 2
         ELSE 1 + IndentedItemsLength(v.t, v.items, depth + 1)
                + (Len(v.items) - 1) + 1 + 2 * depth + 1
IndentedItemsLength(t, items, depth) ==
  IF items = <<>> THEN 0
  ELSE 1 + 2 * depth
         + (IF t = "obj"
            THEN KeyLength[items[1][1]] + 4 + IndentedLength(items[1][2], depth)
            ELSE IndentedLength(items[1], depth))
         + IndentedItemsLength(t, Tail(items), depth)

\* applyPagination(results, options); an option is <<>> when it is not
\* given.
OrElse(option, default) ==
  IF option = <<>> \/ option[1] = 0 THEN default ELSE option[1]

\* A pagination whose hasMore also counts the page that ends the list.
applyPaginationInclusive(results, options) ==
  LET limit == OrElse(options.limit, 100)
      offset == OrElse(options.offset, 0)
  IN JObj(<< <<"results",
               JArr(SubSeq(results, offset + 1,
                           Min(offset + limit, Len(results))))>>,
             <<"total", JNum(Len(results))>>,
             <<"limit", JNum(limit)>>,
             <<"offset", JNum(offset)>>,
             <<"hasMore", JBool(offset + limit <= Len(results))>> >>)

applyPagination(results, options) ==
  LET limit == OrElse(options.limit, 100)
      offset == OrElse(options.offset, 0)
  IN JObj(<< <<"results",
               JArr(SubSeq(results, offset + 1,
                           Min(offset + limit, Len(results))))>>,
             <<"total", JNum(Len(results))>>,
             <<"limit", JNum(limit)>>,
             <<"offset", JNum(offset)>>,
             <<"hasMore", JBool(offset + limit < Len(results))>> >>)

\* The other QueryEngine of the repository (src/unnamed/part_001):
\* applyPaginationWithContext(matches, allLines, options).  A match is
\* [line, content]; each gets the trimmed lines around it, contextLines
\* (2 when not given) on either side.
WithContext(match, allLines, contextLines) ==
  LET lineIndex == match.line - 1
      first == IF lineIndex - contextLines > 0
               THEN lineIndex - contextLines ELSE 0
      last == Min(Len(allLines) - 1, lineIndex + contextLines)
  IN JObj(<< <<"line", JNum(match.line)>>,
             <<"content", JText(match.content)>>,
             <<"context",
               JObj(<< <<"before",
                         JArr([i \in 1..(lineIndex - first) |->
                                 JText(Trim(allLines[first + i]))])>>,
                       <<"after",
                         JArr([i \in 1..(last - lineIndex) |->
                                 JText(Trim(allLines[lineIndex + 1 + i]))])>>
                    >>)>> >>)

applyPaginationWithContext(matches, allLines, options) ==
  LET contextLines == IF options.contextLines = <<>> THEN 2
                      ELSE options.contextLines[1]
      matchesWithContext ==
        [i \in DOMAIN matches |-> WithContext(matches[i], allLines, contextLines)]
      limit == OrElse(options.limit, 100)
      offset == OrElse(options.offset, 0)
  IN JObj(<< <<"results",
               JArr(SubSeq(matchesWithContext, offset + 1,
                           Min(offset + limit, Len(matches))))>>,
             <<"total", JNum(Len(matches))>>,
             <<"limit", JNum(limit)>>,
             <<"offset", JNum(offset)>>,
             <<"hasMore", JBool(offset + limit < Len(matches))>> >>)

\* detectMode(query); a query is the sequence of its characters.
detectMode(query) ==
  IF query # <<>> /\ query[1] = "$" THEN "jsonpath"
  ELSE IF query # <<>> /\ query[1] = "/" /\ query[Len(query)] = "/"
       THEN "regex"
       ELSE "text"

\* queryText(data, query, options)
queryText(data, query, options) ==
  LET lines == Split(StringifyIndented(data, 0))
      lowerQuery == ToLowerCase(FromChars(query))
      hits == SelectSeq([i \in DOMAIN lines |-> [line |-> i, text |-> lines[i]]],
                        LAMBDA h : TextIncludes(ToLowerCase(h.text), lowerQuery))
  IN Returned(applyPagination(
       [i \in DOMAIN hits |->
          JObj(<< <<"line", JNum(hits[i].line)>>,
                  <<"content", JText(Trim(hits[i].text))>> >>)],
       options))

\* new RegExp(pattern, 'g'), for the patterns of the model: one character
\* with '+' or '*', and the lone '(' that does not compile.
Compiles(pattern) == pattern # <<"(">>

MatchesEmpty(pattern) ==
  pattern = <<>> \/ (Len(pattern) = 2 /\ pattern[2] = "*")

\* The matches of c+ in a text: its runs of c.
RunsOf(c, s) ==
  LET hits == SelectSeq(s, LAMBDA r : r.c = c)
  IN [i \in DOMAIN hits |-> JText(<<hits[i]>>)]

\* queryRegex(data, query, options): regex.exec() does not move lastIndex
\* past an empty match, so the while loop does not end when the pattern
\* matches the empty string.
queryRegex(data, query, options) ==
  LET pattern == SubSeq(query, 2, Len(query) - 1)
      dataStr == StringifyIndented(data, 0)
  IN IF ~Compiles(pattern)
     THEN Thrown([what |-> "Regex query failed",
                  cause |-> "Invalid regular expression"])
     ELSE IF MatchesEmpty(pattern) THEN Endless
          ELSE Returned(applyPagination(RunsOf(pattern[1], dataStr), options))

\* queryJsonPath(data, query, options), for the paths of the model: the
\* root, which selects the value itself, and paths that select nothing in
\* the payloads of the model.
queryJsonPath(data, q, options) ==
  Returned(applyPagination(IF q = <<"$">> THEN <<data>> ELSE <<>>, options))

\* query(): `options.mode || this.detectMode(query)`.
SelectMode(q, options) ==
  IF options.mode # <<>> THEN options.mode[1] ELSE detectMode(q)

\* query(data, query, options)
query(data, q, options) ==
  CASE SelectMode(q, options) = "jsonpath" -> queryJsonPath(data, q, options)
    [] SelectMode(q, options) = "regex" -> queryRegex(data, q, options)
    [] OTHER -> queryText(data, q, options)

\* An extractChunk whose range test lets the chunk number totalChunks
\* through.
extractChunkUpTo(data, chunkNumber, chunkSize) ==
  LET dataStr == StringifyIndented(data, 0)
      totalChunks == CeilDiv(StrLength(dataStr), chunkSize)
      start == chunkNumber * chunkSize
      end == Min(start + chunkSize, StrLength(dataStr))
      chunk == Slice(dataStr, start, end)
  IN IF chunkNumber < 0 \/ chunkNumber > totalChunks
     THEN Thrown([what |-> "Invalid chunk number", last |-> totalChunks - 1])
     ELSE Returned([chunk |-> chunk, chunkNumber |-> chunkNumber,
                    totalChunks |-> totalChunks, chunkSize |-> StrLength(chunk),
                    hasMore |-> chunkNumber < totalChunks - 1])

\* extractChunk(data, chunkNumber, chunkSize)
extractChunk(data, chunkNumber, chunkSize) ==
  LET dataStr == StringifyIndented(data, 0)
      totalChunks == CeilDiv(StrLength(dataStr), chunkSize)
      start == chunkNumber * chunkSize
      end == Min(start + chunkSize, StrLength(dataStr))
      chunk == Slice(dataStr, start, end)
  IN IF chunkNumber < 0 \/ chunkNumber >= totalChunks
     THEN Thrown([what |-> "Invalid chunk number", last |-> totalChunks - 1])
     ELSE Returned([chunk |-> chunk, chunkNumber |-> chunkNumber,
                    totalChunks |-> totalChunks, chunkSize |-> StrLength(chunk),
                    hasMore |-> chunkNumber < totalChunks - 1])

(***************************************************************************)
(* The size gate: MCPProxy.forwardToolCall.                                *)
(***************************************************************************)
CallSlots == 1..MaxTasks

\* The object {}.
EmptyObject == << >>

\* A handler of the server in progress: handler is the request it serves,
\* args the arguments of a tool call, got what the CacheManager call of a
\* management tool returned, engine the number of QueryEngine calls made.
IdleCall ==
  [pc |-> "idle", handler |-> "", toolName |-> "", args |-> EmptyObject,
   request |-> 0, response |-> <<>>, responseSize |-> 0, saves |-> <<>>,
   responseId |-> NoId, got |-> <<>>, engine |-> 0, result |-> <<>>]

MCP_SDK_LIMIT == 900000

MaxTokensValues == {25000, 250000}

\* A threshold that ignores the client's token limit.
MaxSizeSdkOnly(tokens) == MCP_SDK_LIMIT

\* maxSize of forwardToolCall.
MaxSize(tokens) == Min(MCP_SDK_LIMIT, tokens * 4)

\* A gate that also catches a response of exactly maxSize.
TooLargeOrEqual(responseSize, maxSize) == responseSize >= maxSize

\* The test `responseSize > maxSize`.
TooLarge(responseSize, maxSize) == responseSize > maxSize

\* (n / d).toFixed(2), in hundredths.
ToFixed2(n, d) == (200 * n + d) \div (2 * d)

ContentText(text, isError) ==
  [content |-> <<[type |-> "text", text |-> text]>>, isError |-> isError]

\* The answer of the over-threshold branch; m is the metadata read back.
Summary(c, m) ==
  ContentText([what |-> "Response too large",
               sizeKB |-> ToFixed2(c.responseSize, 1024),
               chunks |-> IF m = <<>> THEN <<>> ELSE <<m[1].chunks>>,
               id |-> c.responseId,
               expires |-> IF m = <<>> THEN <<>> ELSE <<m[1].expiresAt>>],
              <<>>)

\* A catch block that falls back on the response it holds.
CaughtPassThrough(c, errorMsg) ==
  [c EXCEPT
     !.pc = "done",
     !.result =
       IF c.response # <<>> THEN c.response
       ELSE <<ContentText([what |-> "Error calling", tool |-> c.toolName,
                           message |-> errorMsg], <<TRUE>>)>>]

\* A catch block that does not flag its answer as an error.
CaughtUnflagged(c, errorMsg) ==
  [c EXCEPT
     !.pc = "done",
     !.result =
       IF \/ Includes(errorMsg, <<"maximum", "length">>)
          \/ Includes(errorMsg, <<"exceeds">>)
       THEN <<ContentText([what |-> "Response exceeded MCP protocol size limit"],
                          <<>>)>>
       ELSE <<ContentText([what |-> "Error calling", tool |-> c.toolName,
                           message |-> errorMsg], <<>>)>>]

\* The catch block.
Caught(c, errorMsg) ==
  [c EXCEPT
     !.pc = "done",
     !.result =
       IF \/ Includes(errorMsg, <<"maximum", "length">>)
          \/ Includes(errorMsg, <<"exceeds">>)
       THEN <<ContentText([what |-> "Response exceeded MCP protocol size limit"],
                          <<>>)>>
       ELSE <<ContentText([what |-> "Error calling", tool |-> c.toolName,
                           message |-> errorMsg], <<TRUE>>)>>]

\* What follows `await this.targetTransport.sendRequest(...)` once that
\* promise has settled as o, up to the next await or the return.
AfterSendRequest(c, o) ==
  IF o.state = "rejected" THEN Caught(c, o.message)
  ELSE IF o.value = <<>>
       THEN Caught(c, <<"Cannot", "read", "properties", "of", "undefined">>)
       ELSE LET responseSize == StrLength(Stringify(o.value[1]))
                d == [c EXCEPT !.response = o.value,
                               !.responseSize = responseSize]
            IN IF TooLarge(responseSize, MaxSize(maxTokens))
               THEN [d EXCEPT !.pc = "save"]
               ELSE [d EXCEPT !.pc = "done", !.result = o.value]

ClientLabel == IF clientInfo # <<>> THEN clientInfo[1] ELSE "unknown"

\* forwardToolCall() in slot k returns as c.
Reply(k, c) ==
  /\ calls' = [calls EXCEPT ![k] = IdleCall]
  /\ replied' = <<c>>
  /\ seen' = seen \cup (IF c.responseId # NoId THEN {c.responseId} ELSE {})

(***************************************************************************)
(* The management tools: MCPProxy.handleManagementTool and its handlers.   *)
(* The text of an answer is kept as a record: `what` is its fixed part.    *)
(***************************************************************************)
ManagementTools ==
  {"query_response", "get_chunk", "list_responses", "get_response_info",
   "refresh_response", "delete_response"}

\* A test that knows the two reading tools only.
IsManagementToolReadOnly(toolName) ==
  toolName \in {"query_response", "get_chunk"}

IsManagementTool(toolName) == toolName \in ManagementTools

MAX_RESPONSE_SIZE == 800000

ChunkSize == 10000

\* The catch block of handleManagementTool.
Fail(c, message) ==
  [c EXCEPT !.pc = "done",
            !.result = <<ContentText([what |-> "Error: ", message |-> message],
                                     <<>>)>>]

Answer(c, text) ==
  [c EXCEPT !.pc = "done", !.result = <<ContentText(text, <<>>)>>]

\* !data
Falsy(v) == v = JNull \/ (v.t = "str" /\ v.n = 0)

Opt(args, key) == IF key \in DOMAIN args THEN <<args[key]>> ELSE <<>>

\* The CacheManager call each handler starts with.
FirstCall(toolName, args) ==
  CASE toolName \in {"query_response", "get_chunk"} ->
         Started("get", "read_meta", args.response_id)
    [] toolName = "list_responses" -> Started("list", "readdir", NoId)
    [] toolName = "get_response_info" ->
         Started("getMetadata", "read_meta", args.response_id)
    [] toolName = "refresh_response" ->
         Started("refresh", "read_meta", args.response_id)
    [] toolName = "delete_response" ->
         Started("delete", "unlink_data", args.response_id)

\* handleQueryResponse(): the answer for results whose JSON text has the
\* given size.
SizedAnswer(d, results, size) ==
  IF size > MAX_RESPONSE_SIZE
  THEN Answer(d, [what |-> "Query results are too large",
                  sizeKB |-> ToFixed2(size, 1024),
                  cut |-> size - MAX_RESPONSE_SIZE,
                  total |-> IF results.items[2][2].n = 0 THEN <<>>
                            ELSE <<results.items[2][2].n>>,
                  value |-> results])
  ELSE Answer(d, [what |-> "results", value |-> results])

\* handleQueryResponse() once queryEngine.query() has gone as r.
QueryAnswer(d, r) ==
  IF ~r.ends THEN [d EXCEPT !.pc = "hung"]
  ELSE IF ~r.ok THEN Fail(d, r.message[1])
       ELSE SizedAnswer(d, r.value[1], IndentedLength(r.value[1], 0))

\* handleQueryResponse() after `await this.cacheManager.get(response_id)`.
handleQueryResponse(c, data) ==
  IF Falsy(data)
  THEN Fail(c, [what |-> "not found or expired", id |-> c.args.response_id])
  ELSE QueryAnswer([c EXCEPT !.engine = c.engine + 1],
                   query(data, c.args.query,
                         [mode |-> Opt(c.args, "mode"),
                          limit |-> Opt(c.args, "limit"), offset |-> <<>>]))

\* handleGetChunk() once queryEngine.extractChunk() has gone as r.
ChunkAnswer(d, r) ==
  IF ~r.ok THEN Fail(d, r.message[1])
  ELSE Answer(d, [what |-> "Chunk",
                  number |-> d.args.chunk_number + 1,
                  total |-> r.value[1].totalChunks,
                  id |-> d.args.response_id,
                  chunk |-> r.value[1].chunk])

\* handleGetChunk() after `await this.cacheManager.get(response_id)`.
handleGetChunk(c, data) ==
  IF Falsy(data)
  THEN Fail(c, [what |-> "not found or expired", id |-> c.args.response_id])
  ELSE ChunkAnswer([c EXCEPT !.engine = c.engine + 1],
                   extractChunk(data, c.args.chunk_number, ChunkSize))

\* A handler of call c goes on after its CacheManager call u: the call as
\* it is at the next await, at the return, or in a loop that does not end.
AfterManagement(c, u) ==
  LET d == [c EXCEPT !.got = <<u>>]
      id == c.args.response_id
  IN CASE c.toolName = "query_response" -> handleQueryResponse(d, u.retV)
       [] c.toolName = "get_chunk" -> handleGetChunk(d, u.retV)
       [] c.toolName = "list_responses" ->
            Answer(d, [what |-> "list", items |-> u.items])
       [] c.toolName = "get_response_info" ->
            IF u.meta = <<>> THEN Fail(d, [what |-> "not found", id |-> id])
            ELSE Answer(d, [what |-> "metadata", meta |-> u.meta[1]])
       [] c.toolName = "refresh_response" /\ u.op = "refresh" ->
            IF ~u.retB THEN Fail(d, [what |-> "Failed to refresh", id |-> id])
            ELSE [d EXCEPT !.pc = "getMetadata"]
       [] c.toolName = "refresh_response" /\ u.op = "getMetadata" ->
            Answer(d, [what |-> "Refreshed", id |-> id,
                       expires |-> IF u.meta = <<>> THEN <<>>
                                   ELSE <<u.meta[1].expiresAt>>])
       [] c.toolName = "delete_response" ->
            Answer(d, [what |-> IF u.retB THEN "Deleted" ELSE "Failed to delete",
                       id |-> id])

\* The handler of call k goes on as d after its CacheManager call u in
\* slot s.
Managed(s, k, u, d) ==
  /\ tasks' = [tasks EXCEPT ![s] =
                 IF d.pc = "getMetadata"
                 THEN [Started("getMetadata", "read_meta", u.id)
                         EXCEPT !.caller = k]
                 ELSE IdleTask]
  /\ calls' = [calls EXCEPT ![k] = IF d.pc = "done" THEN IdleCall ELSE d]
  /\ replied' = IF d.pc = "done" THEN <<d>> ELSE <<>>
  /\ seen' = IF d.pc = "done" /\ u.op = "list"
             THEN seen \cup { u.items[i].id : i \in DOMAIN u.items }
             ELSE seen
  /\ phase' = IF d.pc = "hung" THEN "hung" ELSE phase

\* A CacheManager call u made by a handler of the proxy is done in slot s:
\* the code that follows its await.
AfterStore(s, u) ==
  LET k == u.caller
      c == calls[k]
  IN IF IsManagementTool(c.toolName)
     THEN Managed(s, k, u, AfterManagement(c, u))
     ELSE /\ phase' = phase
          /\ CASE u.op = "save" ->
                    /\ tasks' = [tasks EXCEPT ![s] =
                                   [Started("getMetadata", "read_meta", u.id)
                                      EXCEPT !.caller = k]]
                    /\ calls' = [calls EXCEPT ![k] =
                                   [c EXCEPT !.pc = "getMetadata",
                                             !.responseId = u.id]]
                    /\ replied' = <<>>
                    /\ seen' = seen
               [] u.op = "getMetadata" ->
                    /\ tasks' = [tasks EXCEPT ![s] = IdleTask]
                    /\ Reply(k, [c EXCEPT !.pc = "done",
                                          !.result = <<Summary(c, u.meta)>>])

\* The process of the proxy runs: it has not exited, and it is not caught
\* in a loop that does not end.
Alive == phase \notin {"exited", "hung"}

\* A client calls the store in slot s; the call runs up to its first await.
Call(s, u) ==
  /\ Alive
  /\ tasks' = Disturb([tasks EXCEPT ![s] = u], s)
  /\ returned' = <<>>
  /\ replied' = <<>>
  /\ event' = <<>>
  /\ UNCHANGED <<now, fs, seen, calls, clientInfo, maxTokens>>
  /\ UNCHANGED <<nextId, messageHandlers, promises, timers, process, outbox>>
  /\ UNCHANGED serverVars

\* The ids a finished call hands to its caller.
Given(u) ==
  CASE u.op = "save" -> {u.id}
    [] u.op = "list" -> { u.items[i].id : i \in DOMAIN u.items }
    [] OTHER -> {}

\* Slot s goes on as u; a call that is done returns and frees its slot.
Continue(s, u) ==
  /\ Alive
  /\ IF u.pc = "done" /\ u.caller # 0
     THEN AfterStore(s, u) /\ returned' = <<>>
     ELSE /\ tasks' = [tasks EXCEPT ![s] = IF u.pc = "done" THEN IdleTask ELSE u]
          /\ returned' = IF u.pc = "done" THEN <<u>> ELSE <<>>
          /\ seen' = IF u.pc = "done" THEN seen \cup Given(u) ELSE seen
          /\ replied' = <<>>
          /\ calls' = calls
          /\ phase' = phase
  /\ event' = <<>>
  /\ UNCHANGED <<issued, clientInfo, stores, maxTokens>>
  /\ UNCHANGED <<nextId, messageHandlers, promises, timers, process, outbox>>
  /\ UNCHANGED <<targetTools, started, connected, notificationHandlers>>
  /\ UNCHANGED ioVars

\* The ids a caller can name: one it has been given, or the name of such
\* an id's metadata file without its '.json'.
ArgIds == seen \cup { id \o <<"meta">> : id \in seen }

Save(s, tool, data, client, id) ==
  /\ Free(s)
  /\ Call(s, SaveTask(id, tool, data, client, 0))
  /\ issued' = issued \cup {id}
  /\ UNCHANGED stores

Get(s, id) ==
  /\ Free(s)
  /\ Call(s, Started("get", "read_meta", id))
  /\ UNCHANGED <<issued, stores>>

GetMetadata(s, id) ==
  /\ Free(s)
  /\ Call(s, Started("getMetadata", "read_meta", id))
  /\ UNCHANGED <<issued, stores>>

Delete(s, id) ==
  /\ Free(s)
  /\ Call(s, Started("delete", "unlink_data", id))
  /\ UNCHANGED <<issued, stores>>

List(s) ==
  /\ Free(s)
  /\ Call(s, Started("list", "readdir", NoId))
  /\ UNCHANGED <<issued, stores>>

Cleanup(s) ==
  /\ Free(s)
  /\ Call(s, [Started("cleanup", "readdir", NoId) EXCEPT !.now = now])
  /\ UNCHANGED <<issued, stores>>

Refresh(s, id) ==
  /\ Free(s)
  /\ Call(s, Started("refresh", "read_meta", id))
  /\ UNCHANGED <<issued, stores>>

Done(t) == [t EXCEPT !.pc = "done"]

\* cleanup(): the for loop, from item t.idx on, up to the next delete.
RECURSIVE CleanupLoop(_)
CleanupLoop(t) ==
  IF t.idx > Len(t.items) THEN Done([t EXCEPT !.retN = t.cleaned])
  ELSE IF Expired(t.items[t.idx], t.now)
       THEN [t EXCEPT !.id = t.items[t.idx].id, !.pc = "unlink_data"]
       ELSE CleanupLoop([t EXCEPT !.idx = t.idx + 1])

\* What follows `await this.delete(id)` in each caller.
AfterDelete(t, ok) ==
  CASE t.op = "delete" -> Done([t EXCEPT !.retB = ok])
    [] t.op = "get" -> Done([t EXCEPT !.retV = JNull])
    [] t.op = "cleanup" ->
         CleanupLoop([t EXCEPT !.cleaned = t.cleaned + 1,
                               !.removed = t.removed + (IF ok THEN 1 ELSE 0),
                               !.idx = t.idx + 1])

\* What follows `await this.list()` in each caller.
AfterList(t) ==
  CASE t.op = "list" -> Done(t)
    [] t.op = "cleanup" -> CleanupLoop([t EXCEPT !.idx = 1])

RECURSIVE Flatten(_)
Flatten(ss) == IF ss = <<>> THEN <<>> ELSE Head(ss) \o Flatten(Tail(ss))

\* What follows `await this.getMetadata(id)` in each caller; m is <<>> for
\* null and <<metadata>> otherwise.  list() reads the files it found all at
\* once: t.idx is the one whose read has landed, and the metadata.filter()
\* runs when the last one has.
AfterGetMetadata(t, m) ==
  CASE t.op = "getMetadata" -> Done([t EXCEPT !.meta = m])
    [] t.op = "get" ->
         IF m # <<>> /\ Expired(m[1], now)
         THEN [t EXCEPT !.meta = m, !.now = now, !.pc = "unlink_data"]
         ELSE [t EXCEPT !.meta = m, !.now = now, !.pc = "read_data"]
    [] t.op = "refresh" ->
         IF m = <<>> THEN Done([t EXCEPT !.retB = FALSE])
         ELSE [t EXCEPT
                 !.now = now,
                 !.meta = <<[m[1] EXCEPT
                               !.expiresAt = toISOString(now + TTL * 1000)]>>,
                 !.pc = "write_meta"]
    [] t.op \in {"list", "cleanup"} ->
         LET u == [t EXCEPT !.reads[t.idx] = m, !.todo = t.todo \ {t.idx}]
         IN IF u.todo = {}
            THEN AfterList([u EXCEPT !.items = Flatten(u.reads), !.idx = 0])
            ELSE u

\* A getMetadata() that gives null for an entry that has expired.
ReadMetadataUnexpired(f, id) ==
  IF getMetaFilePath(id) \in DOMAIN f
       /\ ~Expired(ReadJson(f, getMetaFilePath(id)), now)
  THEN <<ReadJson(f, getMetaFilePath(id))>>
  ELSE <<>>

\* getMetadata(): readFile of the metadata file and JSON.parse, null on a throw.
ReadMetadata(f, id) ==
  IF getMetaFilePath(id) \in DOMAIN f
  THEN <<ReadJson(f, getMetaFilePath(id))>>
  ELSE <<>>

ReadMeta(s) ==
  LET t == tasks[s]
  IN /\ t.pc = "read_meta"
     /\ IF t.op \in {"list", "cleanup"}
        THEN \E i \in t.todo :
               Continue(s, AfterGetMetadata([t EXCEPT !.idx = i],
                                            ReadMetadata(fs, t.names[i])))
        ELSE Continue(s, AfterGetMetadata(t, ReadMetadata(fs, t.id)))
     /\ UNCHANGED <<now, fs>>

\* list(): readdir, the filter on '.meta.json' and the ids of the files kept.
MetaFileIds(f) ==
  SelectSeq(IdSeq, LAMBDA id :
    getMetaFilePath(id) \in DOMAIN f /\ EndsWithMetaJson(getMetaFilePath(id)))

Readdir(s) ==
  LET t == tasks[s]
      names == MetaFileIds(fs)
      u == [t EXCEPT !.names = names, !.todo = DOMAIN names,
                     !.reads = [i \in DOMAIN names |-> <<>>]]
  IN /\ t.pc = "readdir"
     /\ Continue(s, IF u.names = <<>> THEN AfterList(u)
                    ELSE [u EXCEPT !.pc = "read_meta"])
     /\ UNCHANGED <<now, fs>>

\* A get() that gives null for a payload whose metadata file is missing.
ReadPayloadWithMetadata(f, id) ==
  LET p == getFilePath(id)
  IN IF /\ p \in DOMAIN f
        /\ getMetaFilePath(id) \in DOMAIN f
        /\ (EndsWithMetaJson(p) \/ Parses(f[p]))
     THEN ReadJson(f, p) ELSE JNull

\* get(): readFile of the payload file and JSON.parse, null on a throw.
ReadPayload(f, id) ==
  LET p == getFilePath(id)
  IN IF p \in DOMAIN f /\ (EndsWithMetaJson(p) \/ Parses(f[p]))
     THEN ReadJson(f, p) ELSE JNull

ReadData(s) ==
  LET t == tasks[s]
  IN /\ t.pc = "read_data"
     /\ Continue(s, Done([t EXCEPT !.retV = ReadPayload(fs, t.id)]))
     /\ UNCHANGED <<now, fs>>

WriteData(s) ==
  LET t == tasks[s]
  IN /\ t.pc = "write_data"
     /\ fs' = WriteFile(fs, getFilePath(t.id), Stringify(t.data))
     /\ Continue(s, [t EXCEPT !.pc = "write_meta"])
     /\ UNCHANGED now

WriteMeta(s) ==
  LET t == tasks[s]
  IN /\ t.pc = "write_meta"
     /\ fs' = WriteFile(fs, getMetaFilePath(t.id), StringifyMeta(t.meta[1]))
     /\ Continue(s, Done(IF t.op = "refresh" THEN [t EXCEPT !.retB = TRUE]
                         ELSE t))
     /\ UNCHANGED now

\* The errors a writeFile in the cache directory can fail with.
WriteErrors ==
  { <<"ENOSPC:", "no", "space", "left", "on", "device">>,
    <<"EACCES:", "permission", "denied">> }

\* What a writeFile that fails leaves of the file p: what was there, if it
\* failed at the open, or a file cut short, if it failed at a write.
FailedWrite(f, p) == {f, WriteFile(f, p, <<>>)}

\* The catch blocks around the writeFile of call t in slot s, which has
\* thrown errorMsg.  refresh() returns false; save() logs and throws again:
\* the caller of the store has its promise rejected, and the catch block of
\* a forwardToolCall() that awaits it answers.
Throw(s, t, errorMsg) ==
  IF t.op = "refresh" THEN Continue(s, Done([t EXCEPT !.retB = FALSE]))
  ELSE /\ Alive
       /\ tasks' = [tasks EXCEPT ![s] = IdleTask]
       /\ IF t.caller # 0
          THEN /\ Reply(t.caller, Caught(calls[t.caller], errorMsg))
               /\ returned' = <<>>
          ELSE /\ returned' = <<[t EXCEPT !.pc = "threw"]>>
               /\ replied' = <<>>
               /\ calls' = calls
               /\ seen' = seen
       /\ phase' = phase
       /\ event' = <<>>
       /\ UNCHANGED <<issued, clientInfo, stores, maxTokens>>
       /\ UNCHANGED <<nextId, messageHandlers, promises, timers, process, outbox>>
       /\ UNCHANGED <<targetTools, started, connected, notificationHandlers>>
       /\ UNCHANGED ioVars

\* save(): the first writeFile fails.
WriteDataFails(s, errorMsg) ==
  LET t == tasks[s]
  IN /\ t.pc = "write_data"
     /\ fs' \in FailedWrite(fs, getFilePath(t.id))
     /\ Throw(s, t, errorMsg)
     /\ UNCHANGED now

\* save() and refresh(): the writeFile of the metadata fails.
WriteMetaFails(s, errorMsg) ==
  LET t == tasks[s]
  IN /\ t.pc = "write_meta"
     /\ fs' \in FailedWrite(fs, getMetaFilePath(t.id))
     /\ Throw(s, t, errorMsg)
     /\ UNCHANGED now

\* delete(): the first unlink; a missing file throws and delete returns false.
UnlinkData(s) ==
  LET t == tasks[s]
      p == getFilePath(t.id)
  IN /\ t.pc = "unlink_data"
     /\ IF p \in DOMAIN fs
        THEN /\ fs' = Unlink(fs, p)
             /\ Continue(s, [t EXCEPT !.pc = "unlink_meta"])
        ELSE /\ fs' = fs
             /\ Continue(s, AfterDelete(t, FALSE))
     /\ UNCHANGED now

\* delete(): the second unlink.
UnlinkMeta(s) ==
  LET t == tasks[s]
      p == getMetaFilePath(t.id)
  IN /\ t.pc = "unlink_meta"
     /\ IF p \in DOMAIN fs
        THEN /\ fs' = Unlink(fs, p)
             /\ Continue(s, AfterDelete(t, TRUE))
        ELSE /\ fs' = fs
             /\ Continue(s, AfterDelete(t, FALSE))
     /\ UNCHANGED now

\* Time passes.
Tick ==
  /\ Alive
  /\ \E t \in TimePoints : t > now /\ now' = t
  /\ returned' = <<>>
  /\ replied' = <<>>
  /\ event' = <<>>
  /\ UNCHANGED <<fs, tasks, issued, seen, calls, clientInfo, stores, maxTokens>>
  /\ UNCHANGED <<nextId, messageHandlers, promises, timers, process, outbox>>
  /\ UNCHANGED serverVars

(***************************************************************************)
(* The transport: TargetServerTransport.  A message of the subprocess is   *)
(* handled in a step of its own; the continuation of the code that awaits  *)
(* the promise the message settles runs in the same step, as it runs       *)
(* before any other callback.                                              *)
(***************************************************************************)
REQUEST_TIMEOUT == 30000

Instants ==
  {0} \cup { e * REQUEST_TIMEOUT + j : e \in 1..MaxEpoch, j \in {-1, 0, 1} }

Methods == {"tools/call"}

ErrorTexts == { <<>>, <<"boom">>, <<"result", "exceeds", "limit">> }

Message(id, method, result, error) ==
  [id |-> id, method |-> method, result |-> result, error |-> error]

\* What the subprocess can send: a response with a result, with an error
\* or with neither, for an id that may be pending or not, and a
\* notification.
Inbound ==
  { Message(<<i>>, <<>>, <<v>>, <<>>) : i \in 1..(MaxReq + 1), v \in Results }
    \cup { Message(<<i>>, <<>>, <<>>, <<[message |-> m]>>) :
             i \in 1..(MaxReq + 1), m \in ErrorTexts }
    \cup { Message(<<i>>, <<>>, <<>>, <<>>) : i \in 1..(MaxReq + 1) }
    \cup { Message(<<>>, <<"notifications/message">>, <<>>, <<>>) }

\* A lookup that takes the oldest registered handler, whatever the id.
HandlerOldest(handlers, id) ==
  IF handlers # {}
  THEN <<CHOOSE h \in handlers : \A g \in handlers : h <= g>>
  ELSE <<>>

\* handleMessage(): this.messageHandlers.get(message.id).
Handler(handlers, id) == IF id \in handlers THEN <<id>> ELSE <<>>

\* The handler sendRequest() registers.
Outcome(msg) ==
  IF msg.error # <<>>
  THEN Rejected(IF msg.error[1].message # <<>> THEN msg.error[1].message
                ELSE <<"Unknown", "error">>)
  ELSE Resolved(msg.result)

\* A timer callback that leaves the handler registered.
TimedOutKept(handlers, id) == handlers

\* The timer callback of sendRequest(), when the handler of id is still
\* registered: the handlers it leaves.
TimedOut(handlers, id) == handlers \ {id}

\* getManagementTools(): the descriptors it returns, by their names.
getManagementTools ==
  <<"query_response", "get_chunk", "list_responses", "get_response_info",
    "refresh_response", "delete_response">>

\* A listing of the remote tools alone.
ListingRemoteOnly(tools) == [tools |-> tools]

\* The value the handler of tools/list returns when targetTools is tools.
Listing(tools) == [tools |-> tools \o getManagementTools]

\* The try block of the handler of tools/list once its sendRequest() has
\* settled as o: the targetTools it leaves.  `result.tools` of a result
\* that is undefined or null throws, and the catch keeps what was there.
Fetched(o, tools) ==
  IF o.state = "rejected" THEN tools
  ELSE IF o.value = <<>> \/ o.value = <<JNull>> THEN tools
  ELSE IF "tools" \in DOMAIN o.value[1] THEN o.value[1].tools
  ELSE <<>>

\* The handler of tools/list in slot k returns, targetTools being tools.
Listed(k, tools) ==
  /\ targetTools' = tools
  /\ calls' = [calls EXCEPT ![k] = IdleCall]
  /\ replied' = <<[calls[k] EXCEPT !.pc = "done",
                                   !.result = <<Listing(tools)>>]>>
  /\ UNCHANGED <<tasks, issued, seen, phase, clientInfo, stores, connected, outbox>>

\* forwardToolCall() in slot k goes on as c.
Forwarded(k, c) ==
  /\ IF c.pc = "save"
     THEN \E id \in GenIds \ issued, s \in Slots :
            /\ Free(s)
            /\ tasks' = Disturb([tasks EXCEPT ![s] =
                           SaveTask(id, c.toolName, c.response[1],
                                    ClientLabel, k)], s)
            /\ issued' = issued \cup {id}
            /\ calls' = [calls EXCEPT ![k] =
                           [c EXCEPT !.saves =
                              Append(@, [tool |-> c.toolName,
                                         data |-> c.response[1],
                                         client |-> ClientLabel])]]
            /\ replied' = <<>>
            /\ seen' = seen
     ELSE Reply(k, c) /\ UNCHANGED <<tasks, issued>>
  /\ UNCHANGED <<phase, targetTools, clientInfo, stores, connected, outbox>>

\* An await that gives undefined where the promise was rejected.
ThrowsNever(o) == FALSE

\* `await` of a promise that has settled as o throws.
Throws(o) == o.state = "rejected"

\* sendNotification(method): what it writes to the subprocess.
Notification(method) ==
  [id |-> 0, method |-> method, params |-> EmptyObject, at |-> now]

\* MCPProxy.start() after `await sendRequest('initialize', ...)` settled as
\* o.  A rejection leaves start() and main() catches it: process.exit(1).
\* Otherwise the notification is written, the server is connected and the
\* client is named; the last line reads `initResult.serverInfo`, which
\* throws when the response carried no result or null.
Initialized(o) ==
  /\ IF Throws(o)
     THEN /\ phase' = "exited"
          /\ UNCHANGED <<clientInfo, stores, connected, outbox>>
     ELSE /\ outbox' = IF process = "running"
                       THEN Append(outbox,
                                   Notification("notifications/initialized"))
                       ELSE outbox
          /\ connected' = TRUE
          /\ clientInfo' = <<"claude-ai">>
          /\ stores' = Append(stores, CacheManager)
          /\ phase' = IF o.value = <<>> \/ o.value = <<JNull>>
                      THEN "exited" ELSE "serving"
  /\ replied' = <<>>
  /\ UNCHANGED <<tasks, issued, seen, calls, targetTools>>

\* The promise of request i has settled as o: what awaits it, if anything
\* does, goes on.
Settled(i, o) ==
  LET K == { k \in CallSlots :
               calls[k].pc = "sendRequest" /\ calls[k].request = i }
  IN IF phase = "initialize" /\ i = 1
     THEN Initialized(o)
     ELSE IF K = {}
     THEN /\ replied' = <<>>
          /\ UNCHANGED <<tasks, issued, seen, calls, phase, targetTools,
                         clientInfo, stores, connected, outbox>>
     ELSE LET k == CHOOSE k \in K : TRUE
          IN IF calls[k].handler = "ListTools"
             THEN Listed(k, Fetched(o, targetTools))
             ELSE Forwarded(k, AfterSendRequest(calls[k], o))

\* A timer that never fires.
TimerCleared(at) == [due |-> at + REQUEST_TIMEOUT, fired |-> TRUE]

\* setTimeout(..., 30000) at the instant `at`.
Timer(at) == [due |-> at + REQUEST_TIMEOUT, fired |-> FALSE]

\* sendRequest(): the executor of its promise.
sendRequest(method, params) ==
  /\ nextId' = nextId + 1
  /\ messageHandlers' = messageHandlers \cup {nextId}
  /\ promises' = Append(promises, Pending)
  /\ timers' = [i \in DOMAIN timers \cup {nextId} |->
                  IF i = nextId THEN Timer(now) ELSE timers[i]]
  /\ outbox' = IF process = "running"
               THEN Append(outbox, [id |-> nextId, method |-> method,
                                    params |-> params, at |-> now])
               ELSE outbox

\* start(): the subprocess is spawned and its pipes are taken.
Start ==
  /\ process = "none"
  /\ process' = "running"
  /\ returned' = <<>>
  /\ replied' = <<>>
  /\ event' = <<>>
  /\ UNCHANGED <<now, fs, tasks, issued, seen, calls, clientInfo, stores, maxTokens>>
  /\ UNCHANGED <<nextId, messageHandlers, promises, timers, outbox>>
  /\ UNCHANGED serverVars

\* A client of the transport sends a request.
SendRequest(method) ==
  /\ nextId <= MaxReq
  /\ sendRequest(method, EmptyObject)
  /\ returned' = <<>>
  /\ replied' = <<>>
  /\ event' = <<>>
  /\ UNCHANGED <<now, fs, tasks, issued, seen, calls, clientInfo, stores, maxTokens>>
  /\ UNCHANGED process
  /\ UNCHANGED serverVars

\* A listener that onNotification() has registered: whether it throws when
\* it is called, and the notifications it has been called with.
Listener(throws) == [throws |-> throws, got |-> <<>>]

\* this.notificationHandlers.forEach(h => h(message)): the listeners are
\* called in the order of their registration, up to the first that throws.
RECURSIVE Deliver(_, _)
Deliver(hs, msg) ==
  IF hs = <<>> THEN <<>>
  ELSE IF hs[1].throws
       THEN <<[hs[1] EXCEPT !.got = Append(@, msg)]>> \o Tail(hs)
       ELSE <<[hs[1] EXCEPT !.got = Append(@, msg)]>> \o Deliver(Tail(hs), msg)

\* The second branch of handleMessage(): a message without an id is a
\* notification when it has a method.
IsNotification(msg) == msg.id = <<>> /\ msg.method # <<>>

\* The stdout of the subprocess can be read: the subprocess runs, or it has
\* exited and its pipe is not closed yet.
Readable == process \in {"running", "exited"}

\* handleMessage(message), and the continuation it wakes.
HandleMessage(msg) ==
  /\ Alive
  /\ Readable
  /\ event' = <<[kind |-> "message", id |-> msg.id]>>
  /\ returned' = <<>>
  /\ LET h == IF msg.id # <<>> THEN Handler(messageHandlers, msg.id[1])
              ELSE <<>>
     IN IF h # <<>>
        THEN /\ promises' = [promises EXCEPT ![h[1]] = Settle(@, Outcome(msg))]
             /\ messageHandlers' = messageHandlers \ {msg.id[1]}
             /\ Settled(h[1], Settle(promises[h[1]], Outcome(msg)))
        ELSE /\ replied' = <<>>
             /\ UNCHANGED <<promises, messageHandlers, tasks, issued, seen,
                            calls, phase, targetTools, clientInfo, stores, connected,
                            outbox>>
  /\ notificationHandlers' = IF IsNotification(msg)
                             THEN Deliver(notificationHandlers, msg)
                             ELSE notificationHandlers
  /\ UNCHANGED <<now, fs, maxTokens, nextId, timers, process, started>>
  /\ UNCHANGED ioVars

\* The timer of request i fires.
Timeout(i) ==
  /\ Alive
  /\ i \in DOMAIN timers
  /\ ~timers[i].fired
  /\ now >= timers[i].due
  /\ timers' = [timers EXCEPT ![i].fired = TRUE]
  /\ event' = <<[kind |-> "timeout", id |-> <<i>>]>>
  /\ returned' = <<>>
  /\ IF i \in messageHandlers
     THEN /\ messageHandlers' = TimedOut(messageHandlers, i)
          /\ promises' = [promises EXCEPT ![i] =
                            Settle(@, Rejected(<<"Request", "timeout">>))]
          /\ Settled(i, Settle(promises[i], Rejected(<<"Request", "timeout">>)))
     ELSE /\ replied' = <<>>
          /\ UNCHANGED <<promises, messageHandlers, tasks, issued, seen, calls,
                         phase, targetTools, clientInfo, stores, connected, outbox>>
  /\ UNCHANGED <<now, fs, maxTokens, nextId, process, started>>
  /\ UNCHANGED <<notificationHandlers, queryEngine, buffer, wire, dispatched>>

\* Time passes, up to the next timer that is due.
Elapse(t) ==
  /\ Alive
  /\ t > now
  /\ \A i \in DOMAIN timers : timers[i].fired \/ timers[i].due >= t
  /\ \A i \in DOMAIN started : started[i].fired \/ started[i].due >= t
  /\ now' = t
  /\ returned' = <<>>
  /\ replied' = <<>>
  /\ event' = <<>>
  /\ UNCHANGED <<fs, tasks, issued, seen, calls, clientInfo, stores, maxTokens>>
  /\ UNCHANGED <<nextId, messageHandlers, promises, timers, process, outbox>>
  /\ UNCHANGED serverVars

\* A client calls a tool of the target server: forwardToolCall() up to its
\* await.  Request 1 was `initialize`.
ForwardToolCall(k, toolName, args) ==
  /\ calls[k].pc = "idle"
  /\ \A j \in CallSlots : j < k => calls[j].pc # "idle"
  /\ nextId <= MaxReq + 1
  /\ sendRequest("tools/call", [name |-> toolName, arguments |-> args])
  /\ calls' = [calls EXCEPT ![k] =
                 [IdleCall EXCEPT !.pc = "sendRequest", !.handler = "CallTool",
                                  !.toolName = toolName, !.args = args,
                                  !.request = nextId]]
  /\ returned' = <<>>
  /\ replied' = <<>>
  /\ event' = <<>>
  /\ UNCHANGED <<now, fs, tasks, issued, seen, clientInfo, stores, maxTokens, process>>
  /\ UNCHANGED serverVars

\* handleManagementTool() up to the await of its handler's CacheManager
\* call.
HandleManagementTool(k, toolName, args) ==
  /\ calls[k].pc = "idle"
  /\ \A j \in CallSlots : j < k => calls[j].pc # "idle"
  /\ \E s \in Slots :
       /\ Free(s)
       /\ tasks' = Disturb([tasks EXCEPT ![s] =
                      [FirstCall(toolName, args) EXCEPT !.caller = k]], s)
  /\ calls' = [calls EXCEPT ![k] =
                 [IdleCall EXCEPT !.pc = "store", !.handler = "CallTool",
                                  !.toolName = toolName, !.args = args]]
  /\ returned' = <<>>
  /\ replied' = <<>>
  /\ event' = <<>>
  /\ UNCHANGED <<now, fs, issued, seen, clientInfo, stores, maxTokens>>
  /\ UNCHANGED <<nextId, messageHandlers, promises, timers, process, outbox>>
  /\ UNCHANGED serverVars

\* The handler of tools/call; a is the `arguments` of the request, <<>>
\* when it has none.
CallTool(k, toolName, a) ==
  /\ phase = "serving"
  /\ LET args == IF a = <<>> THEN EmptyObject ELSE a[1]
     IN IF IsManagementTool(toolName)
        THEN HandleManagementTool(k, toolName, args)
        ELSE ForwardToolCall(k, toolName, args)

\* The handler of tools/list in slot k, up to its await or, the catalog
\* being there, its return.
ListTools(k) ==
  /\ phase = "serving"
  /\ calls[k].pc = "idle"
  /\ \A j \in CallSlots : j < k => calls[j].pc # "idle"
  /\ IF Len(targetTools) = 0
     THEN /\ nextId <= MaxReq + 1
          /\ sendRequest("tools/list", EmptyObject)
          /\ calls' = [calls EXCEPT ![k] =
                         [IdleCall EXCEPT !.pc = "sendRequest",
                                          !.handler = "ListTools",
                                          !.request = nextId]]
          /\ replied' = <<>>
     ELSE /\ calls' = calls
          /\ replied' = <<[IdleCall EXCEPT !.pc = "done",
                                           !.handler = "ListTools",
                                           !.result = <<Listing(targetTools)>>]>>
          /\ UNCHANGED <<nextId, messageHandlers, promises, timers, outbox>>
  /\ returned' = <<>>
  /\ event' = <<>>
  /\ UNCHANGED <<now, fs, tasks, issued, seen, clientInfo, stores, maxTokens, process>>
  /\ UNCHANGED serverVars

START_DELAY == 100

SpawnOutcomes == {"spawned", "error", "nopipes"}

\* What MCPProxy.start() sends with `initialize`.
InitializeParams ==
  [protocolVersion |-> "2024-11-05", capabilities |-> EmptyObject,
   clientInfo |-> [name |-> "mcp-cache", version |-> "0.1.0"]]

\* The promise of TargetServerTransport.start() when its executor returns:
\* rejected at once when spawn() gave no pipes.
StartPromise(outcome) ==
  IF outcome = "nopipes"
  THEN Rejected(<<"Failed", "to", "create", "process", "pipes">>)
  ELSE Pending

\* main() calls MCPProxy.start(), which calls TargetServerTransport.start():
\* the executor of its promise.  spawn() gives a subprocess, or an object
\* whose 'error' event is emitted on the next tick, with pipes ("error") or
\* without them ("nopipes").  A rejection of the promise leaves
\* MCPProxy.start(), and main() catches it: process.exit(1).
StartProxy(outcome) ==
  /\ phase = "constructed"
  /\ process = "none"
  /\ process' = IF outcome = "spawned" THEN "running" ELSE "failed"
  /\ started' = <<[promise |-> StartPromise(outcome),
                    due |-> now + START_DELAY, fired |-> FALSE,
                    error |-> outcome # "spawned"]>>
  /\ phase' = IF StartPromise(outcome).state = "rejected"
              THEN "exited" ELSE "start"
  /\ returned' = <<>>
  /\ replied' = <<>>
  /\ event' = <<>>
  /\ UNCHANGED <<now, fs, tasks, issued, seen, calls, clientInfo, stores, maxTokens>>
  /\ UNCHANGED <<nextId, messageHandlers, promises, timers, outbox>>
  /\ UNCHANGED <<targetTools, connected, notificationHandlers>>
  /\ UNCHANGED ioVars

\* A handler of 'error' that logs the error and leaves the promise alone.
OnErrorLogged(p) == p

\* The handler of the subprocess's 'error' event: reject(error).
OnError(p) == Settle(p, Rejected(<<"spawn", "ENOENT">>))

\* The 'error' event of the subprocess that could not be spawned.
ProcessError ==
  /\ Alive
  /\ started # <<>>
  /\ started[1].error
  /\ started' = <<[started[1] EXCEPT !.promise = OnError(@),
                                     !.error = FALSE]>>
  /\ phase' = IF /\ phase = "start"
                 /\ started[1].promise.state = "pending"
                 /\ OnError(started[1].promise).state = "rejected"
              THEN "exited" ELSE phase
  /\ returned' = <<>>
  /\ replied' = <<>>
  /\ event' = <<>>
  /\ UNCHANGED <<now, fs, tasks, issued, seen, calls, clientInfo, stores, maxTokens>>
  /\ UNCHANGED <<nextId, messageHandlers, promises, timers, process, outbox>>
  /\ UNCHANGED <<targetTools, connected, notificationHandlers>>
  /\ UNCHANGED ioVars

\* The 100 ms timer of start() fires, after the callbacks of the next tick:
\* the promise is resolved, and MCPProxy.start() goes on to its second
\* await, of sendRequest('initialize', ...).
StartTimer ==
  /\ Alive
  /\ started # <<>>
  /\ ~started[1].fired
  /\ ~started[1].error
  /\ now >= started[1].due
  /\ started' = <<[started[1] EXCEPT !.promise = Settle(@, Resolved(<<>>)),
                                     !.fired = TRUE]>>
  /\ IF phase = "start" /\ started[1].promise.state = "pending"
     THEN /\ sendRequest("initialize", InitializeParams)
          /\ phase' = "initialize"
     ELSE UNCHANGED <<phase, nextId, messageHandlers, promises, timers,
                      outbox>>
  /\ returned' = <<>>
  /\ replied' = <<>>
  /\ event' = <<>>
  /\ UNCHANGED <<now, fs, tasks, issued, seen, calls, clientInfo, stores, maxTokens>>
  /\ UNCHANGED <<process, targetTools, connected, notificationHandlers>>
  /\ UNCHANGED ioVars

\* No method of the query engine is looked at; the subprocess has written
\* nothing.
NoQuery == [op |-> "none"]
NoBytes == [read |-> <<>>, pipe |-> <<>>]

\* The state after the constructors, the query engine being looked at as
\* q says.
ConstructedWith(q) ==
  /\ now = 0
  /\ fs = << >>
  /\ tasks = [s \in Slots |-> IdleTask]
  /\ returned = <<>>
  /\ issued = {}
  /\ seen = {}
  /\ nextId = 1
  /\ messageHandlers = {}
  /\ promises = <<>>
  /\ timers = << >>
  /\ process = "none"
  /\ outbox = <<>>
  /\ event = <<>>
  /\ calls = [k \in CallSlots |-> IdleCall]
  /\ replied = <<>>
  /\ clientInfo = <<>>
  /\ stores = <<CacheManager>>
  /\ maxTokens = 25000
  /\ phase = "constructed"
  /\ targetTools = <<>>
  /\ started = <<>>
  /\ connected = FALSE
  /\ queryEngine = q
  /\ buffer = <<>>
  /\ wire = NoBytes
  /\ dispatched = <<>>
  /\ notificationHandlers = <<>>

\* The state after the constructors.
Constructed == ConstructedWith(NoQuery)

StoreInit == Constructed

\* generateId() draws 48 random bits; here it never draws the same id twice.
StoreNext ==
  \/ \E s \in Slots, tool \in Tools, data \in Payloads, client \in Clients,
        id \in GenIds \ issued : Save(s, tool, data, client, id)
  \/ \E s \in Slots, id \in ArgIds : Get(s, id)
  \/ \E s \in Slots, id \in seen : GetMetadata(s, id)
  \/ \E s \in Slots, id \in ArgIds : Delete(s, id)
  \/ \E s \in Slots : List(s)
  \/ \E s \in Slots : Cleanup(s)
  \/ \E s \in Slots, id \in seen : Refresh(s, id)
  \/ \E s \in Slots : ReadMeta(s)
  \/ \E s \in Slots : Readdir(s)
  \/ \E s \in Slots : ReadData(s)
  \/ \E s \in Slots : WriteData(s)
  \/ \E s \in Slots : WriteMeta(s)
  \/ \E s \in Slots : UnlinkData(s)
  \/ \E s \in Slots : UnlinkMeta(s)
  \/ Tick

SpecStore == StoreInit /\ [][StoreNext]_vars

\* generateId() as it is: 48 random bits with no look at the files, so a
\* save can draw an id that was drawn before.
IdsNext ==
  \/ \E s \in Slots, tool \in Tools, data \in Payloads, client \in Clients,
        id \in GenIds : Save(s, tool, data, client, id)
  \/ \E s \in Slots, id \in seen : Get(s, id)
  \/ \E s \in Slots, id \in seen : Delete(s, id)
  \/ \E s \in Slots : ReadMeta(s)
  \/ \E s \in Slots : ReadData(s)
  \/ \E s \in Slots : WriteData(s)
  \/ \E s \in Slots : WriteMeta(s)
  \/ \E s \in Slots : UnlinkData(s)
  \/ \E s \in Slots : UnlinkMeta(s)
  \/ Tick

SpecIds == StoreInit /\ [][IdsNext]_vars

\* The callback of the interval startAutoCleanup() sets: cleanup(), every
\* five minutes from the construction on.
Sweep(s) ==
  /\ now >= CLEANUP_INTERVAL
  /\ Cleanup(s)

\* The file operation slot s waits for completes.
StoreStep(s) ==
  \/ ReadMeta(s)
  \/ Readdir(s)
  \/ ReadData(s)
  \/ WriteData(s)
  \/ WriteMeta(s)
  \/ UnlinkData(s)
  \/ UnlinkMeta(s)

SweepInit == Constructed

\* The store with its interval, and the clients' calls.
SweepNext ==
  \/ \E s \in Slots, tool \in Tools, client \in Clients, id \in GenIds \ issued :
       Save(s, tool, JStr("a", 99999), client, id)
  \/ \E s \in Slots, id \in seen : Get(s, id)
  \/ \E s \in Slots, id \in seen : Refresh(s, id)
  \/ \E s \in Slots, id \in seen : Delete(s, id)
  \/ \E s \in Slots : Sweep(s)
  \/ \E s \in Slots : StoreStep(s)
  \/ Tick

\* The interval fires again and again, and a file operation that has been
\* started completes.
SweepFairness ==
  /\ SF_vars(\E s \in Slots : Sweep(s))
  /\ \A s \in Slots : WF_vars(StoreStep(s))

SpecSweep == SweepInit /\ [][SweepNext]_vars /\ SweepFairness

TransportInit == Constructed

TransportNext ==
  \/ Start
  \/ \E method \in Methods : SendRequest(method)
  \/ \E msg \in Inbound : HandleMessage(msg)
  \/ \E i \in 1..MaxReq : Timeout(i)
  \/ \E t \in Instants : Elapse(t)

SpecTransport == TransportInit /\ [][TransportNext]_vars

\* start() has returned (the target server has answered `initialize`, the
\* timer of that request has fired since); times count from here, and
\* outbox holds what is written from here on.
Serving(tokens, catalogs) ==
  /\ now = 0
  /\ fs = << >>
  /\ tasks = [s \in Slots |-> IdleTask]
  /\ returned = <<>>
  /\ issued = {}
  /\ seen = {}
  /\ nextId = 2
  /\ messageHandlers = {}
  /\ promises = <<Resolved(<<JNull>>)>>
  /\ timers = << >>
  /\ process = "running"
  /\ outbox = <<>>
  /\ event = <<>>
  /\ calls = [k \in CallSlots |-> IdleCall]
  /\ replied = <<>>
  /\ clientInfo = <<"claude-ai">>
  /\ stores = <<startAutoCleanup(CacheManager, 0), startAutoCleanup(CacheManager, 0)>>
  /\ maxTokens \in tokens
  /\ phase = "serving"
  /\ targetTools \in catalogs
  /\ started = <<[promise |-> Resolved(<<>>), due |-> 0, fired |-> TRUE,
                   error |-> FALSE]>>
  /\ connected = TRUE
  /\ queryEngine = NoQuery
  /\ buffer = <<>>
  /\ wire = NoBytes
  /\ dispatched = <<>>
  /\ notificationHandlers = <<>>

ProxyInit == Serving(MaxTokensValues, {<<>>})

ProxyNext ==
  \/ \E k \in CallSlots, toolName \in Tools :
       ForwardToolCall(k, toolName, EmptyObject)
  \/ \E msg \in Inbound : HandleMessage(msg)
  \/ \E i \in 1..(MaxReq + 1) : Timeout(i)
  \/ \E t \in Instants : Elapse(t)
  \/ \E s \in Slots : WriteData(s)
  \/ \E s \in Slots : WriteMeta(s)
  \/ \E s \in Slots : ReadMeta(s)

SpecProxy == ProxyInit /\ [][ProxyNext]_vars

\* The proxy over a cache directory whose writes can fail.
SaveFailureNext ==
  \/ ProxyNext
  \/ \E s \in Slots, errorMsg \in WriteErrors : WriteDataFails(s, errorMsg)
  \/ \E s \in Slots, errorMsg \in WriteErrors : WriteMetaFails(s, errorMsg)

SpecSaveFailure == ProxyInit /\ [][SaveFailureNext]_vars

\* The tool calls of the clients of the model.
UnknownId == <<"resp_zz">>
ResponseIds == GenIds \cup {UnknownId}
Queries ==
  { <<"a">>, <<"/", "a", "+", "/">>, <<"/", "(", "/">>, <<"/", "a", "*", "/">> }
ChunkNumbers == {0, 10, 11}

ToolCalls ==
  { <<"query_response", <<[response_id |-> id, query |-> q]>>>> :
      id \in ResponseIds, q \in Queries }
    \cup { <<"get_chunk", <<[response_id |-> id, chunk_number |-> n]>>>> :
             id \in ResponseIds, n \in ChunkNumbers }
    \cup { <<"list_responses", <<>>>> }
    \cup { <<t, <<[response_id |-> id]>>>> :
             t \in {"get_response_info", "refresh_response", "delete_response"},
             id \in ResponseIds }
    \cup { <<t, a>> : t \in Tools, a \in {<<>>, <<[url |-> "x"]>>} }

\* What the remote catalog can hold once it has been fetched.
Catalogs == { <<>>, <<"dom", "get_chunk">> }

\* The answers of the target server to the forwarded calls: one that is
\* cached, and an error.
ManageInbound ==
  { Message(<<i>>, <<>>, <<JStr("a", 99999)>>, <<>>) : i \in 2..(MaxReq + 1) }
    \cup { Message(<<i>>, <<>>, <<>>, <<[message |-> <<"boom">>]>>) :
             i \in 2..(MaxReq + 1) }

\* start() has returned, and the clients have listed the tools or not.
ManageInit == Serving({25000}, Catalogs)

ManageNext ==
  \/ \E call \in ToolCalls : CallTool(1, call[1], call[2])
  \/ \E msg \in ManageInbound : HandleMessage(msg)
  \/ \E s \in Slots : ReadMeta(s)
  \/ \E s \in Slots : Readdir(s)
  \/ \E s \in Slots : ReadData(s)
  \/ \E s \in Slots : WriteData(s)
  \/ \E s \in Slots : WriteMeta(s)
  \/ \E s \in Slots : UnlinkData(s)
  \/ \E s \in Slots : UnlinkMeta(s)
  \/ Tick

SpecManage == ManageInit /\ [][ManageNext]_vars

\* The answers of the target server to tools/list: a catalog, a result
\* without `tools`, null, an error, or neither a result nor an error.
ListInbound ==
  { Message(<<i>>, <<>>, <<[tools |-> c]>>, <<>>) :
      i \in 2..(MaxReq + 1), c \in Catalogs }
    \cup { Message(<<i>>, <<>>, <<v>>, <<>>) :
             i \in 2..(MaxReq + 1), v \in {EmptyObject, JNull} }
    \cup { Message(<<i>>, <<>>, <<>>, <<[message |-> <<"boom">>]>>) :
             i \in 2..(MaxReq + 1) }
    \cup { Message(<<i>>, <<>>, <<>>, <<>>) : i \in 2..(MaxReq + 1) }

ListInit == Serving({25000}, {<<>>})

\* The clients list the tools, as many requests at a time as there are
\* call slots.
ListNext ==
  \/ \E k \in CallSlots : ListTools(k)
  \/ \E msg \in ListInbound : HandleMessage(msg)
  \/ \E i \in 2..(MaxReq + 1) : Timeout(i)
  \/ \E t \in Instants : Elapse(t)

SpecList == ListInit /\ [][ListNext]_vars

\* The answers of the target server while the proxy starts and serves:
\* to `initialize` a result, null, an error, or neither; to a forwarded
\* call a result that passes the size gate, or an error.
InitializeResult == [serverInfo |-> [name |-> "target", version |-> "1"]]

StartupInbound ==
  { Message(<<1>>, <<>>, <<v>>, <<>>) : v \in {InitializeResult, JNull} }
    \cup { Message(<<i>>, <<>>, <<JStr("a", 99998)>>, <<>>) :
             i \in 2..(MaxReq + 1) }
    \cup { Message(<<i>>, <<>>, <<>>, <<[message |-> <<"boom">>]>>) :
             i \in 1..(MaxReq + 1) }
    \cup { Message(<<1>>, <<>>, <<>>, <<>>) }

StartupInstants == { START_DELAY + t : t \in Instants }

StartupInit == Constructed

\* main() from the constructors on; the handlers of the client's requests
\* run once Server.connect() has been called.
StartupNext ==
  \/ \E outcome \in SpawnOutcomes : StartProxy(outcome)
  \/ ProcessError
  \/ StartTimer
  \/ \E msg \in StartupInbound : HandleMessage(msg)
  \/ \E i \in 1..(MaxReq + 1) : Timeout(i)
  \/ \E t \in StartupInstants : Elapse(t)
  \/ \E k \in CallSlots, toolName \in Tools : CallTool(k, toolName, <<>>)

SpecStartup == StartupInit /\ [][StartupNext]_vars

(***************************************************************************)
(* The CacheManager instances and their intervals.                         *)
(***************************************************************************)
MaxRuns == 2

\* A step of store i that leaves it as c.
StoreBecomes(i, c) ==
  /\ Alive
  /\ stores' = [stores EXCEPT ![i] = c]
  /\ returned' = <<>>
  /\ replied' = <<>>
  /\ event' = <<>>
  /\ UNCHANGED <<now, fs, tasks, issued, seen, calls, clientInfo, maxTokens>>
  /\ UNCHANGED <<nextId, messageHandlers, promises, timers, process, outbox>>
  /\ UNCHANGED serverVars

\* initialize() of store i: its mkdir is done, and startAutoCleanup() runs.
MkdirDone(i) ==
  /\ stores[i].pc = "mkdir"
  /\ StoreBecomes(i, startAutoCleanup(stores[i], now))

\* initialize() of store i: its mkdir throws, and the catch logs the error.
MkdirFails(i) ==
  /\ stores[i].pc = "mkdir"
  /\ StoreBecomes(i, [stores[i] EXCEPT !.pc = "failed"])

\* stop() is called on the store MCPProxy.cacheManager refers to.
Stop(i) ==
  /\ i = Len(stores)
  /\ StoreBecomes(i, stop(stores[i]))

\* An interval of store i fires: its callback calls cleanup(), which runs
\* in slot s up to its first await.
AutoCleanup(i, s) ==
  \E j \in DOMAIN stores[i].intervals :
    /\ ~stores[i].intervals[j].cleared
    /\ now >= stores[i].intervals[j].due
    /\ stores[i].runs < MaxRuns
    /\ Free(s)
    /\ Call(s, [Started("cleanup", "readdir", NoId) EXCEPT !.now = now])
    /\ stores' = [stores EXCEPT ![i].runs = @ + 1,
                                ![i].intervals[j].due = @ + CLEANUP_INTERVAL]
    /\ UNCHANGED issued

StopInit == Constructed

StopInbound == { Message(<<1>>, <<>>, <<InitializeResult>>, <<>>) }

StopInstants ==
  {START_DELAY, START_DELAY + REQUEST_TIMEOUT}
    \cup { e * CLEANUP_INTERVAL + t : e \in 1..MaxRuns, t \in {0, START_DELAY} }

\* main() from the constructors on, the two stores it makes with their
\* intervals, and a caller of stop().
StopNext ==
  \/ StartProxy("spawned")
  \/ StartTimer
  \/ \E msg \in StopInbound : HandleMessage(msg)
  \/ Timeout(1)
  \/ \E t \in StopInstants : Elapse(t)
  \/ \E i \in DOMAIN stores : MkdirDone(i)
  \/ \E i \in DOMAIN stores : MkdirFails(i)
  \/ \E i \in DOMAIN stores : Stop(i)
  \/ \E i \in DOMAIN stores, s \in Slots : AutoCleanup(i, s)
  \/ \E s \in Slots : Readdir(s)

SpecStop == StopInit /\ [][StopNext]_vars

(***************************************************************************)
(* The query engine on its own: a call is drawn with its arguments, and    *)
(* the steps apply the method to them.                                     *)
(***************************************************************************)
MaxListeners == 2
MaxRead == 10
MaxMatches == 4
MaxLimit == 2
MaxChunks == 6

Options(mode, limit, offset) ==
  [mode |-> mode, limit |-> limit, offset |-> offset, contextLines |-> <<>>]

\* The match lists: n lines, each a match.
LinesOf(n) == [i \in 1..n |-> Rep("a", i)]
MatchesOf(n) == [i \in 1..n |-> [line |-> i, content |-> Rep("a", i)]]

PageCalls ==
  { [op |-> op, n |-> n, limit |-> l, offset |-> o, out |-> <<>>] :
      op \in {"applyPagination", "applyPaginationWithContext"},
      n \in 0..MaxMatches, l \in 1..MaxLimit, o \in 0..(MaxMatches + 1) }

\* The page at offset o.
PageAt(q, o) ==
  IF q.op = "applyPagination"
  THEN applyPagination([i \in 1..q.n |-> JNum(i)],
                       Options(<<>>, <<q.limit>>, <<o>>))
  ELSE applyPaginationWithContext(MatchesOf(q.n), LinesOf(q.n + 1),
                                  Options(<<>>, <<q.limit>>, <<o>>))

\* The page at the offset of the call, then the page that follows it.
Page ==
  /\ queryEngine.op \in {"applyPagination", "applyPaginationWithContext"}
  /\ Len(queryEngine.out) < 2
  /\ LET o == queryEngine.offset + Len(queryEngine.out) * queryEngine.limit
     IN queryEngine' =
          [queryEngine EXCEPT
             !.out = Append(@, [offset |-> o, value |-> PageAt(queryEngine, o)])]

EngineData ==
  { JNull, JStr("a", 3), JStr("é", 2), JArr(<<JStr("a", 2), JStr("a", 1)>>),
    JStr("a", 9998), JStr("a", 9999), JArr(<<JStr("a", 9996)>>) }

ChunkCall(d, size) ==
  [op |-> "extractChunk", data |-> d, chunkSize |-> size, out |-> <<>>,
   outside |-> <<>>, saved |-> <<>>]

\* The chunk size is the configured one, or a small one for the values
\* that have few chunks of that size.
ChunkCalls ==
  { ChunkCall(c[1], c[2]) :
      c \in { e \in EngineData \X {1, 3} :
                CeilDiv(StrLength(StringifyIndented(e[1], 0)), e[2])
                  <= MaxChunks } }
    \cup { ChunkCall(d, ChunkSize) : d \in EngineData }

\* extractChunk() for the chunk numbers from 0 on, as long as hasMore says
\* there is another.
ExtractNext ==
  /\ queryEngine.op = "extractChunk"
  /\ IF queryEngine.out = <<>> THEN TRUE
     ELSE /\ queryEngine.out[Len(queryEngine.out)].ok
          /\ queryEngine.out[Len(queryEngine.out)].value[1].hasMore
  /\ queryEngine' =
       [queryEngine EXCEPT
          !.out = Append(@, extractChunk(queryEngine.data, Len(queryEngine.out),
                                         queryEngine.chunkSize))]

\* extractChunk() for a chunk number below 0 or past the last chunk.
ExtractOutside(n) ==
  /\ queryEngine.op = "extractChunk"
  /\ queryEngine.outside = <<>>
  /\ queryEngine' =
       [queryEngine EXCEPT
          !.outside = <<[chunkNumber |-> n,
                         result |-> extractChunk(queryEngine.data, n,
                                                 queryEngine.chunkSize)]>>]

\* save() of the same value: the metadata it builds.
SaveSame ==
  /\ queryEngine.op = "extractChunk"
  /\ queryEngine.saved = <<>>
  /\ queryEngine' =
       [queryEngine EXCEPT
          !.saved = <<SaveMetadata(IdSeq[1], "dom", queryEngine.data,
                                   "claude-ai", now)>>]

QueryCalls ==
  { [op |-> "query", data |-> d, query |-> q, mode |-> <<>>, out |-> <<>>,
     evaluated |-> <<>>] :
      d \in {JStr("a", 3), JArr(<<JStr("a", 2), JStr("a", 1)>>)},
      q \in { <<"$">>, <<"$", ".", "x">>, <<"/", "a", "+", "/">>,
              <<"/", "a", "+", "/", "i">>, <<"/", "a">>, <<"a">>, <<>> } }
    \cup
  { [op |-> "query", data |-> d, query |-> qm[1], mode |-> <<qm[2]>>,
     out |-> <<>>, evaluated |-> <<>>] :
      d \in {JStr("a", 3), JArr(<<JStr("a", 2), JStr("a", 1)>>)},
      qm \in { <<<<"$">>, "text">>, <<<<"$">>, "jsonpath">>,
               <<<<"/", "a", "+", "/">>, "text">>,
               <<<<"/", "a", "+", "/">>, "regex">>,
               <<<<"a">>, "text">> } }

\* query(): the mode it selects and what it returns.
Query ==
  /\ queryEngine.op = "query"
  /\ queryEngine.out = <<>>
  /\ LET options == Options(queryEngine.mode, <<>>, <<>>)
     IN queryEngine' =
          [queryEngine EXCEPT
             !.evaluated = <<SelectMode(queryEngine.query, options)>>,
             !.out = <<query(queryEngine.data, queryEngine.query, options)>>]

EngineInit == \E q \in PageCalls \cup ChunkCalls \cup QueryCalls : ConstructedWith(q)

EngineStep(A) ==
  /\ A
  /\ returned' = <<>>
  /\ replied' = <<>>
  /\ event' = <<>>
  /\ UNCHANGED <<now, fs, tasks, issued, seen, calls, clientInfo, stores, maxTokens>>
  /\ UNCHANGED <<nextId, messageHandlers, promises, timers, process, outbox>>
  /\ UNCHANGED <<phase, targetTools, started, connected, buffer, wire,
                 dispatched, notificationHandlers>>

EngineNext ==
  \/ EngineStep(Page)
  \/ EngineStep(ExtractNext)
  \/ \E n \in -1..(MaxChunks + 1) : EngineStep(ExtractOutside(n))
  \/ EngineStep(SaveSame)
  \/ EngineStep(Query)

SpecEngine == EngineInit /\ [][EngineNext]_vars

(***************************************************************************)
(* The transport over the lifetime of the subprocess: requests are sent    *)
(* while it runs, it exits at some moment, what it wrote before can still  *)
(* be read until its stdout is closed, and time passes until every timer   *)
(* has fired.                                                              *)
(***************************************************************************)
\* A 'exit' handler that fails the requests that are outstanding.
ProcessExitFailing ==
  /\ Alive
  /\ process = "running"
  /\ process' = "exited"
  /\ event' = <<[kind |-> "exit", id |-> <<>>]>>
  /\ promises' = [i \in DOMAIN promises |->
                    Settle(promises[i], Rejected(<<"exited">>))]
  /\ messageHandlers' = {}
  /\ returned' = <<>>
  /\ replied' = <<>>
  /\ UNCHANGED <<now, fs, tasks, issued, seen, calls, clientInfo, stores, maxTokens>>
  /\ UNCHANGED <<nextId, timers, outbox>>
  /\ UNCHANGED serverVars

\* The 'exit' event of the subprocess: its handler writes a log line.
ProcessExit ==
  /\ Alive
  /\ process = "running"
  /\ process' = "exited"
  /\ event' = <<[kind |-> "exit", id |-> <<>>]>>
  /\ returned' = <<>>
  /\ replied' = <<>>
  /\ UNCHANGED <<now, fs, tasks, issued, seen, calls, clientInfo, stores, maxTokens>>
  /\ UNCHANGED <<nextId, messageHandlers, promises, timers, outbox>>
  /\ UNCHANGED serverVars

\* The stdout of the subprocess that exited has been read to its end:
\* no listener is registered for this.
PipeClose ==
  /\ Alive
  /\ process = "exited"
  /\ process' = "closed"
  /\ event' = <<>>
  /\ returned' = <<>>
  /\ replied' = <<>>
  /\ UNCHANGED <<now, fs, tasks, issued, seen, calls, clientInfo, stores, maxTokens>>
  /\ UNCHANGED <<nextId, messageHandlers, promises, timers, outbox>>
  /\ UNCHANGED serverVars

\* The instants of a lifetime: those at which a request is sent, and those
\* around the moment its timer is due.
LifetimeInstants == Instants \cup { t + REQUEST_TIMEOUT : t \in Instants }

LifetimeInbound ==
  { Message(<<i>>, <<>>, <<JNull>>, <<>>) : i \in 1..(MaxReq + 1) }
    \cup { Message(<<i>>, <<>>, <<>>, <<[message |-> <<"boom">>]>>) :
             i \in 1..(MaxReq + 1) }

\* A request is written to the subprocess while it runs.
LifetimeSend(method) ==
  /\ process = "running"
  /\ now \in Instants
  /\ SendRequest(method)

LifetimeNext ==
  \/ Start
  \/ \E method \in Methods : LifetimeSend(method)
  \/ \E msg \in LifetimeInbound : HandleMessage(msg)
  \/ ProcessExit
  \/ PipeClose
  \/ \E i \in 1..MaxReq : Timeout(i)
  \/ \E t \in LifetimeInstants : Elapse(t)

\* A timer that is due fires, and time does not stop.
LifetimeFairness ==
  /\ \A i \in 1..MaxReq : WF_vars(Timeout(i))
  /\ WF_vars(\E t \in LifetimeInstants : Elapse(t))

SpecLifetime == TransportInit /\ [][LifetimeNext]_vars /\ LifetimeFairness

(***************************************************************************)
(* The framing of the subprocess's stdout: handleData().  A stream is a    *)
(* sequence of units, each a byte or a run of ASCII bytes that stands for  *)
(* a piece of JSON text:                                                   *)
(*   "R1", "R2"  {"jsonrpc":"2.0","id":1,"result":"   (and with id 2)      *)
(*   "Q"         "}                                                        *)
(*   "N"         {"jsonrpc":"2.0","method":"notifications/message"}        *)
(*   "M"         {"jsonrpc":"2.0","params":{}}                             *)
(*   "X"         text that is not JSON                                     *)
(*   "a", "SP", "LF"   the letter a, a space, a newline                    *)
(*   "C3", "A9"  the two bytes of the UTF-8 encoding of é                  *)
(* A read of the pipe ends between two units.                              *)
(***************************************************************************)
\* chunk.toString(): the characters of the bytes of one read.  A byte
\* sequence that is not a whole character gives U+FFFD.
RECURSIVE Decode(_)
Decode(bytes) ==
  IF bytes = <<>> THEN <<>>
  ELSE IF bytes[1] = "C3"
       THEN IF Len(bytes) >= 2 /\ bytes[2] = "A9"
            THEN <<"é">> \o Decode(Tail(Tail(bytes)))
            ELSE <<"U+FFFD">> \o Decode(Tail(bytes))
       ELSE IF bytes[1] = "A9" THEN <<"U+FFFD">> \o Decode(Tail(bytes))
            ELSE <<bytes[1]>> \o Decode(Tail(bytes))

\* text.split('\n')
RECURSIVE SplitNewline(_, _)
SplitNewline(text, current) ==
  IF text = <<>> THEN <<current>>
  ELSE IF text[1] = "LF" THEN <<current>> \o SplitNewline(Tail(text), <<>>)
       ELSE SplitNewline(Tail(text), Append(current, text[1]))

\* line.trim(), which is also what JSON.parse leaves aside at both ends.
RECURSIVE TrimLine(_)
TrimLine(line) ==
  IF line = <<>> THEN <<>>
  ELSE IF line[1] = "SP" THEN TrimLine(Tail(line))
       ELSE IF line[Len(line)] = "SP"
            THEN TrimLine(SubSeq(line, 1, Len(line) - 1))
            ELSE line

StringChars == {"a", "é", "U+FFFD", "SP"}

ResponseId(unit) == IF unit = "R1" THEN <<1>> ELSE IF unit = "R2" THEN <<2>> ELSE <<>>

\* JSON.parse(line): the message, or nothing when it throws.
ParseLine(line) ==
  LET text == TrimLine(line)
  IN IF text = <<"N">>
     THEN <<Message(<<>>, <<"notifications/message">>, <<>>, <<>>)>>
     ELSE IF text = <<"M">> THEN <<Message(<<>>, <<>>, <<>>, <<>>)>>
     ELSE IF /\ Len(text) >= 2
             /\ ResponseId(text[1]) # <<>>
             /\ text[Len(text)] = "Q"
             /\ \A i \in 2..(Len(text) - 1) : text[i] \in StringChars
          THEN <<Message(ResponseId(text[1]), <<>>,
                         <<JText(SubSeq(text, 2, Len(text) - 1))>>, <<>>)>>
          ELSE <<>>

\* handleMessage(message) on the transport alone: the handler table, the
\* results of the requests, the listeners, and the messages it was given.
handleMessage(st, msg) ==
  LET h == IF msg.id # <<>> THEN Handler(st.handlers, msg.id[1]) ELSE <<>>
  IN [handlers |-> IF h # <<>> THEN st.handlers \ {h[1]} ELSE st.handlers,
      promises |-> IF h # <<>>
                   THEN [st.promises EXCEPT ![h[1]] = Settle(@, Outcome(msg))]
                   ELSE st.promises,
      listeners |-> IF IsNotification(msg) THEN Deliver(st.listeners, msg)
                    ELSE st.listeners,
      dispatched |-> Append(st.dispatched, msg)]

\* A loop over the lines that is left at the first line that does not parse.
RECURSIVE ForEachLineUntilError(_, _)
ForEachLineUntilError(st, lines) ==
  IF lines = <<>> THEN st
  ELSE IF TrimLine(lines[1]) = <<>>
       THEN ForEachLineUntilError(st, Tail(lines))
       ELSE IF ParseLine(lines[1]) = <<>> THEN st
            ELSE ForEachLineUntilError(handleMessage(st, ParseLine(lines[1])[1]),
                                       Tail(lines))

\* The loop of handleData() over the complete lines: a line that is not
\* blank is parsed and handled; a line that does not parse is logged.
RECURSIVE ForEachLine(_, _)
ForEachLine(st, lines) ==
  IF lines = <<>> THEN st
  ELSE IF TrimLine(lines[1]) = <<>> \/ ParseLine(lines[1]) = <<>>
       THEN ForEachLine(st, Tail(lines))
       ELSE ForEachLine(handleMessage(st, ParseLine(lines[1])[1]), Tail(lines))

\* handleData(chunk): the buffer it leaves and the state after its loop.
handleData(st, buf, chunk) ==
  LET lines == SplitNewline(buf \o Decode(chunk), <<>>)
  IN [buffer |-> lines[Len(lines)],
      st |-> ForEachLine(st, SubSeq(lines, 1, Len(lines) - 1))]

Transport ==
  [handlers |-> messageHandlers, promises |-> promises,
   listeners |-> notificationHandlers, dispatched |-> dispatched]

\* The 'data' event of stdout with the next n units of the pipe.
Read(n) ==
  /\ Alive
  /\ Readable
  /\ n \in 1..Len(wire.pipe)
  /\ LET after == handleData(Transport, buffer, SubSeq(wire.pipe, 1, n))
     IN /\ buffer' = after.buffer
        /\ messageHandlers' = after.st.handlers
        /\ promises' = after.st.promises
        /\ notificationHandlers' = after.st.listeners
        /\ dispatched' = after.st.dispatched
  /\ wire' = [read |-> wire.read \o SubSeq(wire.pipe, 1, n),
              pipe |-> SubSeq(wire.pipe, n + 1, Len(wire.pipe))]
  /\ event' = <<[kind |-> "data", id |-> <<>>]>>
  /\ returned' = <<>>
  /\ replied' = <<>>
  /\ UNCHANGED <<now, fs, tasks, issued, seen, calls, clientInfo, stores, maxTokens>>
  /\ UNCHANGED <<nextId, timers, process, outbox>>
  /\ UNCHANGED <<phase, targetTools, started, connected, queryEngine>>

\* onNotification(handler)
onNotification(handler) ==
  /\ Alive
  /\ Len(notificationHandlers) < MaxListeners
  /\ notificationHandlers' = Append(notificationHandlers, handler)
  /\ event' = <<>>
  /\ returned' = <<>>
  /\ replied' = <<>>
  /\ UNCHANGED <<now, fs, tasks, issued, seen, calls, clientInfo, stores, maxTokens>>
  /\ UNCHANGED <<nextId, messageHandlers, promises, timers, process, outbox>>
  /\ UNCHANGED <<phase, targetTools, started, connected>>
  /\ UNCHANGED ioVars

\* What the subprocess writes to its stdout.
Streams ==
  { <<"R1", "C3", "A9", "Q", "LF">>,
    <<"X", "LF", "R1", "a", "Q", "LF">>,
    <<"R1", "a", "LF", "N", "LF", "R2", "a", "Q", "LF">>,
    <<"R1", "a", "Q", "LF", "R1", "a", "a", "Q", "LF", "N">>,
    <<"SP", "LF", "N", "SP", "LF", "R2", "Q", "LF", "N", "LF">>,
    <<"N", "LF", "X", "LF", "LF", "N", "LF">>,
    <<"R1", "a", "Q", "LF", "M", "LF">> }

\* The subprocess writes a stream, once in the model.
Write(stream) ==
  /\ Alive
  /\ process = "running"
  /\ wire = NoBytes
  /\ wire' = [read |-> <<>>, pipe |-> stream]
  /\ event' = <<>>
  /\ returned' = <<>>
  /\ replied' = <<>>
  /\ UNCHANGED <<now, fs, tasks, issued, seen, calls, clientInfo, stores, maxTokens>>
  /\ UNCHANGED <<nextId, messageHandlers, promises, timers, process, outbox>>
  /\ UNCHANGED <<phase, targetTools, started, connected, queryEngine, buffer,
                 dispatched, notificationHandlers>>

FramingNext ==
  \/ Start
  \/ \E method \in Methods : SendRequest(method)
  \/ \E throws \in BOOLEAN : onNotification(Listener(throws))
  \/ \E stream \in Streams : Write(stream)
  \/ \E n \in 1..MaxRead : Read(n)

SpecFraming == TransportInit /\ [][FramingNext]_vars

(***************************************************************************)
(* Properties of the transport.                                            *)
(***************************************************************************)
TimeoutError == Rejected(<<"Request", "timeout">>)

\* C3: a response with id i completes the pending request i and no other,
\* whatever the order of arrival; a response whose id matches no pending
\* request changes no pending record and completes no request.
C3_Step ==
  \A i \in 1..(MaxReq + 1) :
    event' = <<[kind |-> "message", id |-> <<i>>]>> =>
      /\ \A j \in DOMAIN promises : j # i => promises'[j] = promises[j]
      /\ messageHandlers' \ {i} = messageHandlers \ {i}
      /\ i \in messageHandlers =>
           (i \notin messageHandlers' /\ promises'[i].state # "pending")
      /\ i \notin messageHandlers =>
           (promises' = promises /\ messageHandlers' = messageHandlers)

\* C3, over every step: a response touches the request of its own id only.
C3_ResponseCorrelation == [][C3_Step]_vars

\* The response to request 2 has arrived while request 1 is still pending.
C3_Witness ==
  /\ event = <<[kind |-> "message", id |-> <<2>>]>>
  /\ Len(promises) = 2
  /\ promises[2].state = "resolved"
  /\ promises[1].state = "pending"
  /\ messageHandlers = {1}

\* C4: a request whose response has not arrived when its timer is due, 30 s
\* after it was sent, fails with the timeout error and its handler is
\* removed; from then on its result does not change, whatever arrives.
C4_Due ==
  /\ \A i \in DOMAIN outbox :
       timers[outbox[i].id].due = outbox[i].at + 30000
  /\ \A i \in DOMAIN promises :
       /\ now > timers[i].due =>
            (promises[i].state # "pending" /\ i \notin messageHandlers)
       /\ promises[i] = TimeoutError =>
            (now >= timers[i].due /\ i \notin messageHandlers)

C4_Step ==
  \A i \in DOMAIN promises :
    /\ (event' = <<[kind |-> "timeout", id |-> <<i>>]>> /\ i \in messageHandlers)
         => (promises'[i] = TimeoutError /\ i \notin messageHandlers')
    /\ promises[i] = TimeoutError => promises'[i] = TimeoutError

\* C4: past its due time a request is settled and its handler gone, the
\* timer fails a pending request, and a request failed by its timer stays so.
C4_RequestTimeout == [] C4_Due /\ [][C4_Step]_vars

\* A response to request 1 has arrived after request 1 timed out.
C4_Witness ==
  /\ event = <<[kind |-> "message", id |-> <<1>>]>>
  /\ Len(promises) >= 1
  /\ promises[1] = TimeoutError
  /\ now > timers[1].due

(***************************************************************************)
(* Properties of the size gate.                                            *)
(***************************************************************************)
IsSummary(v) ==
  /\ "content" \in DOMAIN v
  /\ v.content[1].text.what = "Response too large"

C2_State ==
  \A i \in DOMAIN replied :
    LET r == replied[i]
        limit == IF 900000 < maxTokens * 4 THEN 900000 ELSE maxTokens * 4
    IN (r.response # <<>> /\ StrLength(Stringify(r.response[1])) <= limit) =>
         /\ r.result = r.response
         /\ r.saves = <<>>
         /\ r.responseId = NoId

C2_Frame ==
  (replied' # <<>> /\ replied'[1].saves = <<>>) =>
    (fs' = fs /\ tasks' = tasks /\ issued' = issued)

\* C2: the answer is the response, nothing is saved, and the answering step
\* leaves the files, the store calls and the ids drawn as they were.
C2_UnderThreshold == [] C2_State /\ [][C2_Frame]_vars

C2_Witness ==
  \E i \in DOMAIN replied :
    /\ replied[i].response = <<JStr("a", 99998)>>
    /\ replied[i].responseSize = 100000
    /\ maxTokens = 25000
    /\ replied[i].result = <<JStr("a", 99998)>>
    /\ fs = << >>

(***************************************************************************)
(* Properties of the store.                                                *)
(***************************************************************************)
\* What get(id) returns when it runs from the files f at time `at` with no
\* other call in between.
GetOf(f, id, at) ==
  LET m == ReadMetadata(f, id)
  IN IF m # <<>> /\ Expired(m[1], at) THEN JNull ELSE ReadPayload(f, id)

ExpiresAt(f, id) == DateParse(ReadMetadata(f, id)[1].expiresAt)

Known(f, id) == ReadMetadata(f, id) # <<>>

\* C5: a get(id) right after id = save(tool, P, client), before the entry
\* expires, returns P, and the metadata's sizeBytes is the byte length of
\* P's serialization.
C5_StoreRoundTrip ==
  \A i \in DOMAIN returned :
    LET r == returned[i]
    IN (r.op = "save" /\ now <= DateParse(r.meta[1].expiresAt)) =>
         /\ GetOf(fs, r.id, now) = r.data
         /\ Known(fs, r.id)
         /\ ReadMetadata(fs, r.id)[1].sizeBytes = ByteLength(Stringify(r.data))

C5_Witness ==
  \E i \in DOMAIN returned :
    /\ returned[i].op = "save"
    /\ returned[i].data = JStr("é", 2)
    /\ GetOf(fs, returned[i].id, now) = JStr("é", 2)

\* C6: a get(id) that finds the metadata of id expired reports absent and
\* leaves neither record of id; it returns no value of an entry whose
\* metadata says it has expired; on an id with no record it reports absent.
C6_LazyExpiry ==
  \A i \in DOMAIN returned :
    LET r == returned[i]
    IN (r.op = "get" /\ r.alone) =>
         /\ (r.meta # <<>> /\ Expired(r.meta[1], r.now)) =>
              (r.retV = JNull /\ Present(fs, r.id) = {})
         /\ r.retV # JNull =>
              ~(Known(fs, r.id) /\ ExpiresAt(fs, r.id) < r.now)
         /\ r.pre = {} => r.retV = JNull

\* C7: after a cleanup() returns, list() holds no id whose expiresAt was in
\* the past when that cleanup() started.
C7_SweepCompleteness ==
  \A i \in DOMAIN returned :
    LET r == returned[i]
    IN (r.op = "cleanup" /\ r.alone) =>
         \A id \in GenIds : ~(Known(fs, id) /\ ExpiresAt(fs, id) < r.now)

\* C8: the number cleanup() returns is the number of its deletions that
\* succeeded.
C8_SweepCount ==
  \A i \in DOMAIN returned :
    returned[i].op = "cleanup" => returned[i].retN = returned[i].removed

\* C9: in no step of the store does the expiresAt of a persisted id
\* decrease; a refresh(id) on a known id returns true and sets expiresAt to
\* now + ttl; on an unknown id it returns false and creates no record.
C9_RefreshResult ==
  \A i \in DOMAIN returned :
    LET r == returned[i]
    IN (r.op = "refresh" /\ r.alone) =>
         IF "meta" \in r.pre
         THEN r.retB /\ Known(fs, r.id) /\ ExpiresAt(fs, r.id) = r.now + TTL * 1000
         ELSE ~r.retB /\ Present(fs, r.id) = r.pre

C9_NeverDecreases ==
  \A id \in GenIds :
    (Known(fs, id) /\ Known(fs', id)) => ExpiresAt(fs', id) >= ExpiresAt(fs, id)

\* C9: refresh() answers as stated and no step lowers an expiresAt.
C9_RefreshMonotone == [] C9_RefreshResult /\ [][C9_NeverDecreases]_vars

\* C10: after delete(id) returns, neither record of id remains, and it
\* returns true exactly when both records were present.
C10_Delete ==
  \A i \in DOMAIN returned :
    LET r == returned[i]
    IN (r.op = "delete" /\ r.alone) =>
         /\ Present(fs, r.id) = {}
         /\ r.retB <=> r.pre = {"data", "meta"}

Quiescent == \A s \in Slots : tasks[s].pc = "idle"

\* C11: whenever no store call is in progress, an id has a payload record
\* exactly when it has a metadata record.
C11_RecordPairing ==
  Quiescent =>
    \A id \in GenIds :
      getFilePath(id) \in DOMAIN fs <=> getMetaFilePath(id) \in DOMAIN fs

C12_Step ==
  /\ \A s \in Slots :
       LET t == tasks[s]
       IN t.op = "save" =>
            /\ (t.pc = "write_data" /\ tasks'[s].pc # "write_data")
                 => getFilePath(t.id) \notin DOMAIN fs
            /\ (t.pc = "write_meta" /\ tasks'[s].pc # "write_meta")
                 => getMetaFilePath(t.id) \notin DOMAIN fs
  /\ \A i \in DOMAIN returned' :
       returned'[i].op = "save" => returned'[i].id \notin seen

\* C12: no write of a save replaces a record that is already persisted, and
\* no save returns an id that an earlier save returned.
C12_IdFreshness == [][C12_Step]_vars

\* C18: a forwarded call whose request failed, by an error of the target
\* server or by its timer, answers with an error-flagged text that holds
\* the tool name and the message of the failure (the one the target server
\* sent, 'Request timeout' for the timer), unless that message holds
\* 'maximum length' or 'exceeds': then the answer is the fixed text on the
\* protocol size limit.
C18_ForwardingFailures ==
  \A i \in DOMAIN replied :
    LET r == replied[i]
        p == promises[r.request]
        t == r.result[1].content[1].text
    IN (r.handler = "CallTool" /\ r.request # 0 /\ p.state = "rejected") =>
         /\ event[1].kind = "timeout" => p.message = <<"Request", "timeout">>
         /\ IF \/ Includes(p.message, <<"maximum", "length">>)
               \/ Includes(p.message, <<"exceeds">>)
            THEN t = [what |-> "Response exceeded MCP protocol size limit"]
            ELSE /\ r.result[1].isError = <<TRUE>>
                 /\ t.tool = r.toolName
                 /\ t.message = p.message

C18_Witness ==
  \E i \in DOMAIN replied :
    /\ event[1].kind = "message"
    /\ promises[replied[i].request] = Rejected(<<"boom">>)
    /\ replied[i].result[1].isError = <<TRUE>>
    /\ replied[i].result[1].content[1].text.message = <<"boom">>

(***************************************************************************)
(* Properties of the tool handlers.                                        *)
(***************************************************************************)
C14_Step ==
  LET began == { k \in CallSlots : calls[k].pc = "idle" /\ calls'[k].pc # "idle" }
  IN IF began = {} THEN outbox' = outbox
     ELSE \A k \in began :
            LET c == calls'[k]
            IN IF c.toolName \in
                    {"query_response", "get_chunk", "list_responses",
                     "get_response_info", "refresh_response", "delete_response"}
               THEN outbox' = outbox /\ nextId' = nextId /\ c.request = 0
               ELSE outbox' =
                      Append(outbox,
                             [id |-> nextId, method |-> "tools/call",
                              params |-> [name |-> c.toolName,
                                          arguments |-> c.args],
                              at |-> now])

\* C14: a call of one of the six management tools writes nothing to the
\* subprocess, whatever the remote catalog holds; a call of any other tool
\* writes one tools/call request with the name and the arguments of the
\* call, and nothing else is written while calls are served.
C14_CallRouting == [][C14_Step]_vars

\* The catalog of the target server has a get_chunk of its own; a call of
\* 'dom' has been forwarded, and a call of get_chunk has been answered
\* without a second request.
C14_Witness ==
  /\ targetTools = <<"dom", "get_chunk">>
  /\ Len(outbox) = 1
  /\ outbox[1].params = [name |-> "dom", arguments |-> [url |-> "x"]]
  /\ \E i \in DOMAIN replied :
       replied[i].toolName = "get_chunk" /\ replied[i].request = 0

\* The answers of the management tools to the failures of their handlers.
C17_Answers ==
  \A i \in DOMAIN replied :
    LET r == replied[i]
        u == r.got[1]
        t == r.result[1].content[1].text
        IsError == t.what = "Error: " /\ r.result[1].isError = <<>>
    IN r.toolName \in
         {"query_response", "get_chunk", "list_responses",
          "get_response_info", "refresh_response", "delete_response"} =>
         /\ r.result[1].isError = <<>>
         /\ (/\ r.toolName \in {"query_response", "get_chunk"}
             /\ \/ u.pre = {}
                \/ u.meta # <<>> /\ DateParse(u.meta[1].expiresAt) < u.now
                \/ u.retV = JNull) =>
              /\ IsError
              /\ t.message = [what |-> "not found or expired",
                              id |-> r.args.response_id]
              /\ r.engine = 0
         /\ (/\ r.toolName = "get_chunk"
             /\ u.retV # JNull
             /\ r.args.chunk_number * 10000 >= StrLength(Stringify(u.retV))) =>
              IsError
         /\ (/\ r.toolName = "query_response"
             /\ u.retV # JNull
             /\ r.args.query = <<"/", "(", "/">>) =>
              IsError
         /\ (r.toolName = "refresh_response" /\ u.op = "refresh") => IsError
         /\ (r.toolName = "get_response_info" /\ u.meta = <<>>) => IsError

\* C17: a management call whose handler fails (an id that is unknown or
\* expired, a query that does not compile, a chunk number out of range, a
\* refresh that fails) answers with an unflagged text that begins with
\* 'Error: ', for an unknown or expired id with 'not found or expired' and
\* without a call of the query engine; and no management call stops the
\* process from serving.
C17_Containment == C17_Answers /\ phase # "hung"

(***************************************************************************)
(* Properties of the handler of tools/list.                                *)
(***************************************************************************)
\* Request i was a tools/list.
IsFetch(i) ==
  \E j \in DOMAIN outbox : outbox[j].id = i /\ outbox[j].method = "tools/list"

\* A tools/list has been answered with a result that holds a catalog.
FetchSucceeded ==
  \E i \in DOMAIN promises :
    /\ IsFetch(i)
    /\ promises[i].state = "resolved"
    /\ promises[i].value # <<>>
    /\ "tools" \in DOMAIN promises[i].value[1]

\* This step writes a tools/list to the subprocess.
SendsFetch ==
  /\ Len(outbox') = Len(outbox) + 1
  /\ outbox'[Len(outbox')].method = "tools/list"

\* C15: once a tools/list has been answered with a catalog, whatever it
\* holds (the empty list included), no later step sends tools/list again.
C15_Step == FetchSucceeded => ~SendsFetch

C15_CatalogCaching == [][C15_Step]_vars

\* The listing that has just returned, if one has.
ListingReplied == replied # <<>> /\ replied[1].handler = "ListTools"

\* The listing that has just returned had sent a tools/list that failed
\* with a remote error or by its timer.
FetchFailed ==
  /\ ListingReplied
  /\ replied[1].request # 0
  /\ promises[replied[1].request].state = "rejected"

Contains(tools, names) ==
  \A i \in DOMAIN names : \E j \in DOMAIN tools : tools[j] = names[i]

StartSucceeded == started # <<>> /\ started[1].promise.state = "resolved"

StartFailed == started # <<>> /\ started[1].promise.state = "rejected"

InitializeSent == Len(promises) >= 1

InitializeAnswered == Len(promises) >= 1 /\ promises[1].state = "resolved"

InitializeFailed == Len(promises) >= 1 /\ promises[1].state = "rejected"

\* C13: the client connection is accepted only after start() succeeded,
\* `initialize` was sent and answered, and notifications/initialized was
\* sent, in this order; nothing else is written to the subprocess before
\* the response to `initialize`; and after a failed spawn, a remote error
\* to `initialize` or its timeout the connection is never accepted.
C13_StartupOrder ==
  /\ InitializeSent => StartSucceeded
  /\ outbox # <<>> =>
       (outbox[1].id = 1 /\ outbox[1].method = "initialize")
  /\ Len(outbox) >= 2 =>
       /\ InitializeAnswered
       /\ outbox[2] = [Notification("notifications/initialized")
                         EXCEPT !.at = outbox[2].at]
  /\ connected => (InitializeAnswered /\ Len(outbox) >= 2)
  /\ (process = "failed" \/ StartFailed \/ InitializeFailed) =>
       (~connected /\ phase \in {"start", "exited"})

\* The proxy serves, and has forwarded a tool call to the subprocess.
C13_Witness ==
  /\ connected
  /\ phase = "serving"
  /\ Len(outbox) = 3
  /\ outbox[3].method = "tools/call"

\* C19: when the subprocess cannot be spawned the promise of start() is
\* never resolved, and is rejected as soon as the 'error' event has been
\* handled (at once when there are no pipes); no request is ever sent,
\* the client connection is not accepted, and the process exits.
C19_SpawnFailureFatal ==
  process = "failed" =>
    /\ started[1].promise.state # "resolved"
    /\ started[1].promise.state = "pending" => started[1].error
    /\ StartFailed => phase = "exited"
    /\ ~InitializeSent /\ nextId = 1 /\ outbox = <<>>
    /\ ~connected

\* The 'error' event of a spawn that failed has rejected start().
C19_Witness ==
  /\ process = "failed"
  /\ started[1].promise = Rejected(<<"spawn", "ENOENT">>)
  /\ ~started[1].error
  /\ phase = "exited"

(***************************************************************************)
(* Properties of the periodic sweep.                                       *)
(***************************************************************************)
ExpiredEntry(id) == Known(fs, id) /\ ExpiresAt(fs, id) < now

\* C20: an entry whose expiresAt has passed does not stay: it is deleted in
\* the end, unless it is refreshed, with no client reading it.
C20_SweepLiveness == \A id \in GenIds : ExpiredEntry(id) ~> ~ExpiredEntry(id)

(***************************************************************************)
(* Properties of the query engine.                                         *)
(***************************************************************************)
\* The match numbers a page of limit l at offset o holds, of n matches.
Window(n, o, l) ==
  [i \in 1..(IF n - o <= 0 THEN 0 ELSE IF n - o < l THEN n - o ELSE l) |->
     o + i]

\* The match numbers a returned page holds; a match with its context is
\* match i when its line and content are those of match i.
Numbers(page) ==
  LET results == Field(page.items, "results").items
  IN [i \in DOMAIN results |->
        IF results[i].t = "num" THEN results[i].n
        ELSE IF Field(results[i].items, "content")
                  = JText(Rep("a", Field(results[i].items, "line").n))
             THEN Field(results[i].items, "line").n
             ELSE 0]

\* C21: with N matches, offset o and limit L the page holds exactly the
\* matches o+1..min(o+L, N) in order, its total is N, its hasMore is false
\* exactly when o + L >= N, and the page at offset 0 followed by the page
\* at offset L hold the first 2L matches, none missing and none twice.
C21_PaginationLaw ==
  queryEngine.op \in {"applyPagination", "applyPaginationWithContext"} =>
    /\ \A i \in DOMAIN queryEngine.out :
         LET e == queryEngine.out[i]
         IN /\ Numbers(e.value) = Window(queryEngine.n, e.offset, queryEngine.limit)
            /\ Field(e.value.items, "total") = JNum(queryEngine.n)
            /\ (Field(e.value.items, "hasMore") = JBool(FALSE))
                 <=> (e.offset + queryEngine.limit >= queryEngine.n)
    /\ (Len(queryEngine.out) = 2 /\ queryEngine.out[1].offset = 0) =>
         Numbers(queryEngine.out[1].value) \o Numbers(queryEngine.out[2].value)
           = Window(queryEngine.n, 0, 2 * queryEngine.limit)

\* Two pages of two from offset 0 over four matches: the second ends the
\* list exactly.
C21_Witness ==
  /\ queryEngine.op = "applyPaginationWithContext"
  /\ queryEngine.n = 4
  /\ queryEngine.limit = 2
  /\ Len(queryEngine.out) = 2
  /\ queryEngine.out[1].offset = 0
  /\ Field(queryEngine.out[1].value.items, "hasMore") = JBool(TRUE)
  /\ Field(queryEngine.out[2].value.items, "hasMore") = JBool(FALSE)
  /\ Numbers(queryEngine.out[2].value) = <<3, 4>>

\* The chunks returned so far, one after the other.
RECURSIVE Chunks(_)
Chunks(out) ==
  IF out = <<>> THEN <<>> ELSE Cat(out[1].value[1].chunk, Chunks(Tail(out)))

\* Every chunk from 0 on has been fetched: the last one says hasMore false.
AllFetched ==
  /\ queryEngine.op = "extractChunk"
  /\ queryEngine.out # <<>>
  /\ queryEngine.out[Len(queryEngine.out)].ok
  /\ ~queryEngine.out[Len(queryEngine.out)].value[1].hasMore

\* C22: for a chunk size of 1 or more, the chunks 0..totalChunks-1, in
\* order, concatenate to the indented rendering of the value, and
\* extractChunk fails with a range error exactly for the chunk numbers
\* below 0 and from totalChunks on.
C22_ChunkRoundTrip ==
  queryEngine.op = "extractChunk" =>
    LET text == StringifyIndented(queryEngine.data, 0)
        total == CeilDiv(StrLength(text), queryEngine.chunkSize)
    IN /\ \A i \in DOMAIN queryEngine.out :
            /\ queryEngine.out[i].ok
            /\ queryEngine.out[i].value[1].chunkNumber = i - 1
            /\ queryEngine.out[i].value[1].totalChunks = total
       /\ AllFetched =>
            (Len(queryEngine.out) = total /\ Chunks(queryEngine.out) = text)
       /\ \A i \in DOMAIN queryEngine.outside :
            LET call == queryEngine.outside[i]
            IN IF call.chunkNumber < 0 \/ call.chunkNumber >= total
               THEN /\ ~call.result.ok
                    /\ call.result.message[1].what = "Invalid chunk number"
               ELSE call.result.ok

\* A value of six chunks of three characters has been fetched whole, and
\* chunk number 6 was refused.
C22_Witness ==
  /\ AllFetched
  /\ queryEngine.chunkSize = 3
  /\ Len(queryEngine.out) = 6
  /\ queryEngine.outside # <<>>
  /\ queryEngine.outside[1].chunkNumber = 6
  /\ ~queryEngine.outside[1].result.ok

RegexFlags == {"d", "g", "i", "m", "s", "u", "v", "y"}

\* A query wrapped in slashes, with or without flags after the closing one.
WrappedInSlashes(q) ==
  /\ Len(q) >= 2
  /\ q[1] = "/"
  /\ \E close \in 2..Len(q) :
       /\ q[close] = "/"
       /\ \A i \in (close + 1)..Len(q) : q[i] \in RegexFlags

\* C23: with options.mode unset, a query starting with "$" is evaluated in
\* structured-path mode, a query wrapped in slashes, with or without
\* trailing flags, in regex mode, and every other query in text mode; a
\* mode given in the options is the mode used.
C23_ModeDetection ==
  (queryEngine.op = "query" /\ queryEngine.evaluated # <<>>) =>
    queryEngine.evaluated[1] =
      IF queryEngine.mode # <<>> THEN queryEngine.mode[1]
      ELSE IF queryEngine.query # <<>> /\ queryEngine.query[1] = "$"
           THEN "jsonpath"
           ELSE IF WrappedInSlashes(queryEngine.query) THEN "regex"
                ELSE "text"

\* C30: the chunk count in the metadata of a saved payload is the
\* totalChunks extractChunk reports for that payload with the configured
\* chunk size, so the chunk numbers extractChunk accepts are exactly
\* 0 .. chunks - 1.
C30_ChunkCountConsistency ==
  (/\ queryEngine.op = "extractChunk"
   /\ queryEngine.chunkSize = ChunkSize
   /\ queryEngine.saved # <<>>) =>
    /\ \A i \in DOMAIN queryEngine.out :
         queryEngine.out[i].ok =>
           queryEngine.out[i].value[1].totalChunks = queryEngine.saved[1].chunks
    /\ \A i \in DOMAIN queryEngine.outside :
         queryEngine.outside[i].result.ok
           <=> queryEngine.outside[i].chunkNumber
                 \in 0..(queryEngine.saved[1].chunks - 1)

(***************************************************************************)
(* Properties of the transport over the lifetime of the subprocess.        *)
(***************************************************************************)
IsPending(i) == i \in DOMAIN promises /\ promises[i].state = "pending"

IsSettled(i) == i \in DOMAIN promises /\ promises[i].state # "pending"

\* What settles request i: a message with its id, or its timer.
About(i) ==
  { <<[kind |-> "message", id |-> <<i>>]>>, <<[kind |-> "timeout", id |-> <<i>>]>> }

C24_Step ==
  \A i \in DOMAIN promises :
    /\ IsSettled(i) =>
         /\ promises'[i] = promises[i]
         /\ event' \in About(i) =>
              (promises' = promises /\ messageHandlers' = messageHandlers)
    /\ IsPending(i) =>
         /\ i \in messageHandlers
         /\ event' \in About(i) =>
              (promises'[i].state # "pending" /\ i \notin messageHandlers')
         /\ promises'[i] = TimeoutError <=>
              event' = <<[kind |-> "timeout", id |-> <<i>>]>>

\* C24: the result of a request is settled once, by the first of the
\* response with its id and its timer; from then on it does not change,
\* and a further response with the id or the firing of the timer changes
\* nothing; and every pending request is settled in the end.
C24_ExactlyOnce ==
  /\ [][C24_Step]_vars
  /\ \A i \in 1..MaxReq : IsPending(i) ~> IsSettled(i)

\* The timer of request 1 fires after the response to it has arrived, while
\* request 2, sent later and not answered, has been failed by its own.
C24_Witness ==
  /\ Len(promises) = 2
  /\ promises[1] = Resolved(<<JNull>>)
  /\ promises[2] = TimeoutError
  /\ timers[1].fired
  /\ timers[2].fired
  /\ timers[1].due < timers[2].due

Exited == process \in {"exited", "closed"}

ExitEvent == <<[kind |-> "exit", id |-> <<>>]>>

TimeoutOf(i) == <<[kind |-> "timeout", id |-> <<i>>]>>

HasTimedOut(i) == i \in DOMAIN promises /\ promises[i] = TimeoutError

\* The 'exit' event settles nothing and removes no handler or timer.
ExitLeavesPending ==
  event' = ExitEvent =>
    (promises' = promises /\ messageHandlers' = messageHandlers
       /\ timers' = timers)

C25_TimeoutOnlyStep ==
  /\ ExitLeavesPending
  /\ \A i \in DOMAIN promises :
       (Exited /\ IsPending(i) /\ promises'[i].state # "pending") =>
         (promises'[i] = TimeoutError /\ now = timers[i].due)

\* C25 as stated: the exit of the subprocess fails no outstanding request;
\* each stays pending until its own timer is due, 30 s after it was sent,
\* and then fails with the timeout error.
C25_ExitThenTimeout ==
  /\ [][C25_TimeoutOnlyStep]_vars
  /\ \A i \in 1..MaxReq :
       (Exited /\ IsPending(i)) ~> HasTimedOut(i)

C25_Step ==
  /\ ExitLeavesPending
  /\ \A i \in DOMAIN promises :
       (Exited /\ IsPending(i) /\ promises'[i].state # "pending") =>
         IF event' = TimeoutOf(i)
         THEN promises'[i] = TimeoutError /\ now = timers[i].due
         ELSE /\ process = "exited"
              /\ event' = <<[kind |-> "message", id |-> <<i>>]>>

\* C25, amended: the exit of the subprocess fails no outstanding request;
\* each stays pending until a response to it that the subprocess wrote
\* before it exited is read from its stdout, or else until its own timer is
\* due, when it fails with the timeout error; once the stdout is at its
\* end, every request still pending fails with the timeout error.
C25_ExitLeavesPending ==
  /\ [][C25_Step]_vars
  /\ \A i \in 1..MaxReq :
       (process = "closed" /\ IsPending(i)) ~> HasTimedOut(i)

\* The subprocess exited with request 1 unanswered, and request 1 has just
\* been failed by its timer, 30 s after it was sent.
C25_Witness ==
  /\ process = "closed"
  /\ event = TimeoutOf(1)
  /\ promises[1] = TimeoutError
  /\ outbox[1].id = 1
  /\ now = outbox[1].at + 30000

(***************************************************************************)
(* Properties of the framing.                                              *)
(***************************************************************************)
\* What handleData() does with the bytes read so far when they arrive in
\* one read: the messages it dispatches and the fragment it keeps.
InOneRead ==
  handleData([handlers |-> {}, promises |-> <<>>, listeners |-> <<>>,
              dispatched |-> <<>>],
             <<>>, wire.read)

\* C26: however the bytes read so far were split into reads, the messages
\* dispatched are those dispatched when the same bytes arrive in one read,
\* each complete line once and in order, and the buffer holds the fragment
\* after the last newline.
C26_FramingIndependent ==
  /\ dispatched = InOneRead.st.dispatched
  /\ buffer = InOneRead.buffer

\* The complete lines of the bytes read so far, and those of them that are
\* JSON.
CompleteLines ==
  LET lines == SplitNewline(Decode(wire.read), <<>>)
  IN SubSeq(lines, 1, Len(lines) - 1)

JsonLines == SelectSeq(CompleteLines, LAMBDA line : ParseLine(line) # <<>>)

C27_Dispatched ==
  /\ Len(dispatched) = Len(JsonLines)
  /\ \A i \in DOMAIN dispatched :
       /\ dispatched[i].id = ParseLine(JsonLines[i])[1].id
       /\ dispatched[i].method = ParseLine(JsonLines[i])[1].method
  /\ \A i \in DOMAIN promises : promises[i].state # "rejected"

C27_Step ==
  (wire' # wire /\ Len(dispatched') = Len(dispatched)) =>
    /\ promises' = promises
    /\ messageHandlers' = messageHandlers
    /\ notificationHandlers' = notificationHandlers

\* C27: a complete line that is not JSON is dropped: the messages
\* dispatched are the lines that are JSON, all of them and in order,
\* whether they come before or after such a line, in the same read or a
\* later one; a read that completes no JSON line changes neither the
\* handler table nor a request nor a listener; and no request is failed.
C27_MalformedLineIsolation == []C27_Dispatched /\ [][C27_Step]_vars

\* A line that is not JSON was read, and the response behind it has
\* resolved request 1, which was pending.
C27_Witness ==
  /\ wire.read = <<"X", "LF", "R1", "a", "Q", "LF">>
  /\ Len(dispatched) = 1
  /\ Len(promises) >= 1
  /\ promises[1] = Resolved(<<JText(<<"a">>)>>)
  /\ 1 \notin messageHandlers

\* The messages without an id among those dispatched in a step.
NewNotifications ==
  SelectSeq(SubSeq(dispatched', Len(dispatched) + 1, Len(dispatched')),
            LAMBDA msg : msg.id = <<>>)

C28_Step ==
  wire' # wire =>
    /\ \A i \in DOMAIN notificationHandlers :
         notificationHandlers'[i].got
           = notificationHandlers[i].got \o NewNotifications
    /\ Len(NewNotifications) = Len(dispatched') - Len(dispatched) =>
         (promises' = promises /\ messageHandlers' = messageHandlers)

\* C28: every message without an id that is dispatched is given to every
\* registered listener, in the order of arrival, and a read that dispatches
\* only such messages completes and removes no pending request.
C28_NotificationDelivery == [][C28_Step]_vars

(***************************************************************************)
(* Properties of the lookups of the store.                                 *)
(***************************************************************************)
Lookups == {"getMetadata", "list"}

\* Slot s takes a step of a getMetadata() or a list(): the call, one of its
\* reads, or its return.
LookupStep(s) ==
  /\ tasks[s].op \in Lookups \/ tasks'[s].op \in Lookups
  /\ tasks'[s].pc # tasks[s].pc

C29_Step ==
  /\ \A s \in Slots : LookupStep(s) => fs' = fs
  /\ \A i \in DOMAIN returned' :
       LET r == returned'[i]
       IN /\ (r.op = "getMetadata" /\ getMetaFilePath(r.id) \in DOMAIN fs) =>
               r.meta = <<ReadJson(fs, getMetaFilePath(r.id))>>
          /\ (r.op = "list" /\ r.alone) =>
               \A id \in GenIds :
                 getMetaFilePath(id) \in DOMAIN fs =>
                   \E j \in DOMAIN r.items :
                     r.items[j] = ReadJson(fs, getMetaFilePath(id))

\* C29: no step of getMetadata(id) or of list() removes or changes a file;
\* getMetadata(id) returns the metadata that is in the metadata file of id,
\* and a list() that runs alone returns the metadata of every metadata
\* file, in both cases whether expiresAt has passed or not.
C29_ReadOnlyLookups == [][C29_Step]_vars

\* getMetadata(id) has just returned the metadata of an entry that has
\* expired, and the files of the entry are still there.
C29_Witness ==
  /\ returned # <<>>
  /\ returned[1].op = "getMetadata"
  /\ returned[1].meta # <<>>
  /\ Expired(returned[1].meta[1], now)
  /\ Present(fs, returned[1].id) = {"data", "meta"}

(***************************************************************************)
(* Properties of refresh() and of expiry.                                  *)
(***************************************************************************)
\* C32: however refresh(id) interleaves with delete(id), get(id) or
\* cleanup(), once no call is in progress there is no id with a metadata
\* record and no payload record.
C32_NoOrphanMetadata ==
  Quiescent =>
    \A id \in GenIds :
      getMetaFilePath(id) \in DOMAIN fs => getFilePath(id) \in DOMAIN fs

\* Slot s takes the writeFile step of a refresh().
RefreshWrites(s) ==
  /\ tasks[s].op = "refresh"
  /\ tasks[s].pc = "write_meta"
  /\ tasks'[s].pc # "write_meta"

\* The records are the same ones, and all but the file at path p hold what
\* they held.
OnlyFileChanged(p) ==
  /\ DOMAIN fs' = DOMAIN fs
  /\ \A q \in DOMAIN fs : q # p => fs'[q] = fs[q]

\* The metadata in the file at path p differs in its expiresAt at most.
OnlyExpiresAtChanged(p) ==
  ReadJson(fs', p) =
    [ReadJson(fs, p) EXCEPT !.expiresAt = ReadJson(fs', p).expiresAt]

C31_Step ==
  /\ \A s \in Slots :
       RefreshWrites(s) =>
         /\ OnlyFileChanged(getMetaFilePath(tasks[s].id))
         /\ OnlyExpiresAtChanged(getMetaFilePath(tasks[s].id))
  /\ (\A s \in Slots : ~RefreshWrites(s)) =>
       \A p \in DOMAIN fs \cap DOMAIN fs' : fs'[p] = fs[p]

\* C31: the write of a refresh(id) changes the expiresAt of the metadata
\* record of id and nothing else: the records are the same ones, the
\* payload records and the records of other ids hold what they held, and
\* the other metadata fields of id are as they were; and no step that is
\* not the write of a refresh changes what a record holds.
C31_RefreshFrame == [][C31_Step]_vars

C35_Returned ==
  \A i \in DOMAIN returned :
    LET r == returned[i]
    IN /\ (r.op = "refresh" /\ r.alone /\ "meta" \in r.pre) =>
            /\ r.retB
            /\ getMetaFilePath(r.id) \in DOMAIN fs
            /\ DateParse(ReadJson(fs, getMetaFilePath(r.id)).expiresAt)
                 = r.now + TTL * 1000
       /\ (/\ r.op = "get"
           /\ r.alone
           /\ r.pre = {"data", "meta"}
           /\ r.meta # <<>>
           /\ DateParse(r.meta[1].expiresAt) >= r.now) =>
            /\ r.retV # JNull
            /\ r.retV = ReadPayload(fs, r.id)
            /\ Present(fs, r.id) = {"data", "meta"}

\* A get() or cleanup() with no other call in flight removes a file of an
\* entry only when the expiresAt in its metadata has passed.
C35_Step ==
  \A s \in Slots :
    (tasks[s].op \in {"get", "cleanup"} /\ tasks[s].alone /\ fs' # fs) =>
      /\ getMetaFilePath(tasks[s].id) \in DOMAIN fs
      /\ DateParse(ReadJson(fs, getMetaFilePath(tasks[s].id)).expiresAt)
           < tasks[s].now

StepOf(s, op) == tasks[s].op = op /\ tasks'[s].pc # tasks[s].pc

\* id has a payload record and no metadata record.
PayloadOnly(f, id) ==
  getFilePath(id) \in DOMAIN f /\ getMetaFilePath(id) \notin DOMAIN f

C36_Step ==
  /\ \A s \in Slots :
       /\ (StepOf(s, "get") /\ tasks[s].pc # "read_meta"
             /\ tasks[s].meta = <<>>) =>
            /\ tasks[s].pc = "read_data"
            /\ fs' = fs
            /\ \A i \in DOMAIN returned' :
                 (tasks[s].id \in GenIds
                    /\ getFilePath(tasks[s].id) \in DOMAIN fs) =>
                   returned'[i].retV = ReadJson(fs, getFilePath(tasks[s].id))
       /\ (StepOf(s, "get") /\ tasks[s].pc = "unlink_data") =>
            (tasks[s].meta # <<>> /\ Expired(tasks[s].meta[1], tasks[s].now))
       /\ StepOf(s, "cleanup") =>
            \A id \in GenIds :
              (getFilePath(id) \in DOMAIN fs \ DOMAIN fs') =>
                \E j \in DOMAIN tasks[s].items :
                  /\ tasks[s].items[j].id = id
                  /\ Expired(tasks[s].items[j], tasks[s].now)
       /\ (StepOf(s, "cleanup") /\ tasks[s].alone) =>
            \A id \in GenIds :
              PayloadOnly(fs, id) => getFilePath(id) \in DOMAIN fs'
  /\ \A i \in DOMAIN returned' :
       LET r == returned'[i]
       IN (r.op \in {"list", "cleanup"}) =>
            \A j \in DOMAIN r.items :
              \E k \in DOMAIN r.names : r.items[j].id = r.names[k]

\* C36: a get(id) that finds no metadata record of id makes no expiry test:
\* it reads the payload record and returns what it holds, and removes
\* nothing; a get(id) deletes only after it has read a metadata record that
\* has expired; list() and cleanup() return and look at the ids of metadata
\* records only: a cleanup() removes the payload record of an id only when
\* it has listed expired metadata of that id, and a cleanup() with no other
\* call in flight removes no payload record that has no metadata record.
C36_ExpiryByMetadata == [][C36_Step]_vars

\* A get(id) has just returned the value of a payload record that has no
\* metadata record, more than the time to live after the store was set up.
C36_Witness ==
  /\ returned # <<>>
  /\ returned[1].op = "get"
  /\ returned[1].id \in GenIds
  /\ returned[1].meta = <<>>
  /\ returned[1].retV \in Payloads
  /\ PayloadOnly(fs, returned[1].id)
  /\ now > TTL * 1000
(***************************************************************************)
(* Properties of a failing save().                                         *)
(***************************************************************************)
SaveFailed(r) == r.saves # <<>> /\ r.responseId = NoId

IsText(v) == "content" \in DOMAIN v /\ "isError" \in DOMAIN v

C34_Replied ==
  \A i \in DOMAIN replied :
    LET r == replied[i]
        limit == IF 900000 < maxTokens * 4 THEN 900000 ELSE maxTokens * 4
    IN (r.response # <<>> /\ StrLength(Stringify(r.response[1])) > limit) =>
         /\ r.result # r.response
         /\ IsText(r.result[1])
         /\ r.saves # <<>>
         /\ SaveFailed(r) =>
              /\ r.result[1].isError = <<TRUE>>
              /\ r.result[1].content[1].text.what = "Error calling"
              /\ r.result[1].content[1].text.tool = r.toolName
              /\ r.result[1].content[1].text.message \in WriteErrors

C34_Step ==
  \A s \in Slots :
    LET t == tasks[s]
    IN (t.op = "save" /\ t.caller # 0 /\ tasks'[s].op # "save"
          /\ calls'[t.caller].pc = "idle") =>
         /\ replied' # <<>>
         /\ SaveFailed(replied'[1])
         /\ replied'[1].response = <<t.data>>

C33_Step ==
  \A i \in DOMAIN stores :
    stores[i].stopped => stores'[i].runs = stores[i].runs

C33_OneTimer == \A i \in DOMAIN stores : Len(stores[i].intervals) <= 1

\* C33: once stop() has been called on a store, no interval of that store
\* starts a cleanup() run any more, whenever stop() was called; and no
\* store has set more than one interval.
C33_SweepCancellation == []C33_OneTimer /\ [][C33_Step]_vars

====
